---------------------------- MODULE Spec2Model ----------------------------
(***************************************************************************)
(* Model of the admission-control and order/position lifecycle core:       *)
(* RiskEngine (app/risk/risk_engine.py, app/risk/models.py) and            *)
(* ExecutionEngine (app/execution/execution_engine.py, models.py).         *)
(*                                                                         *)
(* Units.  Prices are whole USDT.  Quantities are thousandths of a         *)
(* contract and money amounts (equity, notional, risk amount, PnL) are     *)
(* thousandths of a USDT, so that price * quantity is a money amount and   *)
(* the 50% / 25% take-profit fractions stay exact.  Percentages are whole  *)
(* percent (0.01 in the source is 1).  Times are seconds since midnight of *)
(* day 0.  The inputs are chosen so that every division below is exact.    *)
(* An optional value (None in the source) is the empty sequence; a present *)
(* value x is <<x>>.                                                       *)
(***************************************************************************)
EXTENDS Integers, Sequences, FiniteSets, TLC

VARIABLES
    now,             \* the wall clock the operations read (seconds)
    limits,          \* RiskEngine.limits / ExecutionEngine.limits (shared RiskLimits)
    daily_state,     \* RiskEngine.daily_state: [session_date, realized_pnl]
    cooldown_until,  \* RiskEngine.cooldown_until (optional time)
    decisions,       \* the list the last call returned, if it was assess_signals or
                     \* run_signal_pipeline (empty otherwise)
    positions,       \* ExecutionEngine.positions: symbol held -> PositionState
    intents,         \* every EntryIntent object created so far, by intent id
    entry_intents,   \* ExecutionEngine.entry_intents: the ids in the live map
    active_orders,   \* ExecutionEngine.active_orders: order id -> ActiveOrder
    submitted,       \* the number of calls made to gateway.submit_order
    reports,         \* the list the last call returned, if it was an ExecutionEngine
                     \* operation (empty otherwise)
    last,            \* the last call: its name and the inputs the properties read
                     \* (order: the order update handled; reply: what the gateway
                     \* did with the orders submitted during the call)
    hist,            \* history of the session's record_trade_pnl calls since the last
                     \* roll (kept by the RiskEngine-only specification)
    runtime          \* main(): runtime_state.json, the loop's runtime_state, the
                     \* runtime lock and where the loop and the Telegram thread are
                     \* (nothing where the engines run without main)

vars == <<now, limits, daily_state, cooldown_until, decisions, positions, intents,
          entry_intents, active_orders, submitted, reports, last, hist, runtime>>

riskVars == <<limits, daily_state, cooldown_until, decisions>>
execVars == <<positions, intents, entry_intents, active_orders, submitted, reports>>

--------------------------------------------------------------------------
(* Generic helpers *)

None == <<>>
Some(x) == <<x>>
IsNone(o) == o = <<>>
Abs(x) == IF x < 0 THEN 0 - x ELSE x
Min(a, b) == IF a < b THEN a ELSE b
Max(a, b) == IF a > b THEN a ELSE b
Usd(x) == x * 1000
Qty(x) == x * 1000

RECURSIVE SeqSum(_)
SeqSum(s) == IF s = <<>> THEN 0 ELSE Head(s) + SeqSum(Tail(s))

--------------------------------------------------------------------------
(* Bounds of the model *)

MaxIntents == 2
MaxSignals == 2

--------------------------------------------------------------------------
(* Domain values *)

Symbols == {"BTCUSDT", "ETHUSDT", "SOLUSDT"}
LONG == "long"
SHORT == "short"
Sides == {LONG, SHORT}

SecondsPerDay == 86400

\* The instants the clock visits: around a loss at 00:00 and its 30 minute
\* cooldown, and around the midnight that ends day 0.
Times == {0, 300, 1500, 1800, 2100, 85800, 86100, 86400, 86700, 87900, 88200}

\* datetime(now.year, now.month, now.day): the calendar day of an instant.
SessionKey(t) == t \div SecondsPerDay

--------------------------------------------------------------------------
(* app/risk/models.py: RiskLimits *)

\* The limits of the tests' fixtures: equity 10,000, 1% per trade, 10% daily
\* loss, 30 minutes of cooldown, leverage 5, slippage cap 10 bps.
SampleLimits(max_positions) ==
    [virtual_equity_usdt |-> Usd(10000),
     per_trade_risk_pct |-> 1,
     max_daily_loss_pct |-> 10,
     max_concurrent_positions |-> max_positions,
     cooldown_after_loss_min |-> 30,
     max_leverage |-> 5,
     max_slippage_bps |-> Some(10),
     symbol_max_notional_usdt |-> [s \in Symbols |-> IF s = "ETHUSDT" THEN Usd(500) ELSE 0]]

\* RiskLimits.risk_amount(override_pct, equity)
risk_amount(lim, override_pct, equity) ==
    LET base_pct == IF ~IsNone(override_pct) THEN override_pct[1] ELSE lim.per_trade_risk_pct
        equity_value == IF ~IsNone(equity) THEN equity[1] ELSE lim.virtual_equity_usdt
    IN (base_pct * equity_value) \div 100

\* RiskLimits.max_notional(symbol); a cap of 0 stands for "no cap configured"
\* (`if sym_cap` treats a missing and a zero cap alike).  A variant without
\* the per-symbol cap comes first.
max_notional_base_only(lim, symbol) == lim.virtual_equity_usdt * lim.max_leverage

max_notional(lim, symbol) ==
    LET base_cap == lim.virtual_equity_usdt * lim.max_leverage
        sym_cap == lim.symbol_max_notional_usdt[symbol]
    IN IF sym_cap # 0 THEN Min(base_cap, sym_cap) ELSE base_cap

\* RiskLimits.daily_loss_limit
daily_loss_limit(lim) == 0 - ((lim.virtual_equity_usdt * lim.max_daily_loss_pct) \div 100)

\* DailyRiskState.breach_limit(limits)
breach_limit_flipped(ds, lim) == ds.realized_pnl < daily_loss_limit(lim)
breach_limit(ds, lim) == ds.realized_pnl <= daily_loss_limit(lim)

--------------------------------------------------------------------------
(* app/risk/models.py: PositionState.update_sl; risk_engine.py: apply_trailing_stop *)

\* PositionState.update_sl without the side-aware ratchet.
update_sl_unguarded(pos, new_price) == [pos EXCEPT !.current_sl_price = new_price]

\* PositionState.update_sl(new_price)
update_sl(pos, new_price) ==
    IF pos.side = LONG
    THEN IF new_price > pos.current_sl_price
         THEN [pos EXCEPT !.current_sl_price = new_price] ELSE pos
    ELSE IF new_price < pos.current_sl_price
         THEN [pos EXCEPT !.current_sl_price = new_price] ELSE pos

\* RiskEngine.apply_trailing_stop(position, mkt): the position after the call.
\* trailing_params is [atr_override, trail_atr_mult, trail_percent,
\* dynamic_sl_price], each optional; trail_percent is in whole percent.
apply_trailing_stop(pos, mkt) ==
    LET mode == IF IsNone(pos.trailing_mode) THEN "none" ELSE pos.trailing_mode[1]
        params == pos.trailing_params
        last_price == mkt.mid_price
    IN IF mode = "none" THEN pos
       ELSE IF mode = "ema_atr" THEN
           LET atr == IF ~IsNone(params.atr_override) THEN params.atr_override[1]
                      ELSE IF mkt.ATR_14_5m # 0 THEN mkt.ATR_14_5m ELSE mkt.atr_q_5m
               mult == IF ~IsNone(params.trail_atr_mult) THEN params.trail_atr_mult[1] ELSE 2
               offset == atr * mult
               target == IF pos.side = LONG THEN last_price - offset ELSE last_price + offset
           IN IF atr # 0 THEN update_sl(pos, target) ELSE pos
       ELSE IF mode = "percent" THEN
           LET pct == IF ~IsNone(params.trail_percent) THEN params.trail_percent[1] ELSE 1
               candidate == IF pos.side = LONG
                            THEN (last_price * (100 - pct)) \div 100
                            ELSE (last_price * (100 + pct)) \div 100
           IN update_sl(pos, candidate)
       ELSE IF ~IsNone(params.dynamic_sl_price)
            THEN update_sl(pos, params.dynamic_sl_price[1])
            ELSE pos

--------------------------------------------------------------------------
(* Inputs: signals and market snapshots *)

STRATEGY_A == "strategy_a_trend_continuation"
STRATEGY_B == "strategy_b_bb_squeeze"
STRATEGY_C == "strategy_c_range_break"

NoParams == [atr_override |-> None, trail_atr_mult |-> None,
             trail_percent |-> None, dynamic_sl_price |-> None]
NoMeta == [entry_execution |-> None, max_slippage_bps |-> None,
           virtual_equity |-> None, entry_ttl_seconds |-> None]

\* A Signal (app/strategies/base.py) with the defaults of its dataclass.
Signal(symbol, side, strategy_id, entry_price, sl_price) ==
    [symbol |-> symbol, side |-> side, strategy_id |-> strategy_id,
     entry_price |-> entry_price, sl_price |-> sl_price,
     target_risk_pct |-> None, target_notional |-> None,
     time_stop_bars |-> None, trailing_mode |-> None,
     trailing_params |-> NoParams, tp_levels |-> <<>>, metadata |-> NoMeta]

\* A MarketState (app/market/models.py) reduced to the fields the core reads.
Market(mid_price, spread_bps, depth_pm1_usd) ==
    [mid_price |-> mid_price, spread_bps |-> spread_bps, avg_slippage_bps |-> 2,
     depth_pm1_usd |-> depth_pm1_usd, ATR_14_5m |-> 5, atr_q_5m |-> 1]

\* RiskEngine.priority: the configured priorities (tests: A = 1, B = 3).
StrategyPriority(strategy_id) ==
    IF strategy_id = STRATEGY_A THEN 1
    ELSE IF strategy_id = STRATEGY_B THEN 3
    ELSE 10000

--------------------------------------------------------------------------
(* app/risk/risk_engine.py: RiskEngine *)

\* RiskEngine._roll_session(now): the daily state and cooldown after the roll.
\* A variant that keeps the cooldown across the roll comes first.
roll_session_keep_cooldown(ds, cu, t) ==
    IF SessionKey(t) # ds.session_date
    THEN [daily_state |-> [session_date |-> SessionKey(t), realized_pnl |-> 0],
          cooldown_until |-> cu]
    ELSE [daily_state |-> ds, cooldown_until |-> cu]

roll_session(ds, cu, t) ==
    IF SessionKey(t) # ds.session_date
    THEN [daily_state |-> [session_date |-> SessionKey(t), realized_pnl |-> 0],
          cooldown_until |-> None]
    ELSE [daily_state |-> ds, cooldown_until |-> cu]

\* sorted(signals, key=priority): a stable insertion sort.
RECURSIVE InsertByPriority(_, _)
InsertByPriority(sorted, sig) ==
    IF sorted = <<>> THEN <<sig>>
    ELSE IF StrategyPriority(sig.strategy_id) < StrategyPriority(Head(sorted).strategy_id)
         THEN <<sig>> \o sorted
         ELSE <<Head(sorted)>> \o InsertByPriority(Tail(sorted), sig)

RECURSIVE SortByPriority(_)
SortByPriority(signals) ==
    IF signals = <<>> THEN <<>>
    ELSE InsertByPriority(SortByPriority(SubSeq(signals, 1, Len(signals) - 1)),
                          signals[Len(signals)])

\* RiskEngine._resolve_conflicts(signals): setdefault keeps, per symbol, the
\* first signal of the sorted list; the values come out in insertion order.
\* A variant that does not sort comes first.
resolve_conflicts_input_order(signals) ==
    LET first(i) == \A j \in 1..(i - 1) : signals[j].symbol # signals[i].symbol
        RECURSIVE keep(_)
        keep(i) == IF i > Len(signals) THEN <<>>
                   ELSE (IF first(i) THEN <<signals[i]>> ELSE <<>>) \o keep(i + 1)
    IN keep(1)

resolve_conflicts(signals) ==
    LET srt == SortByPriority(signals)
        first(i) == \A j \in 1..(i - 1) : srt[j].symbol # srt[i].symbol
        RECURSIVE keep(_)
        keep(i) == IF i > Len(srt) THEN <<>>
                   ELSE (IF first(i) THEN <<srt[i]>> ELSE <<>>) \o keep(i + 1)
    IN keep(1)

\* RiskEngine._entry_mode(signal)
entry_mode(signal) ==
    IF ~IsNone(signal.metadata.entry_execution)
    THEN signal.metadata.entry_execution[1] ELSE "market_with_cap"

\* RiskDecision(...) as _build_decision first creates it, and RiskDecision.reject.
NewDecision(signal) ==
    [signal |-> signal, strategy_id |-> signal.strategy_id, symbol |-> signal.symbol,
     side |-> signal.side, entry_type |-> entry_mode(signal), size |-> None,
     notional |-> None, sl_price |-> signal.sl_price,
     trailing_mode |-> signal.trailing_mode, trailing_params |-> signal.trailing_params,
     time_stop_bars |-> signal.time_stop_bars, approved |-> TRUE, risk_amount |-> 0,
     reason |-> None, tp_levels |-> signal.tp_levels, metadata |-> signal.metadata]

\* RiskDecision.reject(reason); a variant that leaves size and notional set
\* comes first.
reject_keeps_size(decision, reason) ==
    [decision EXCEPT !.approved = FALSE, !.reason = Some(reason)]

reject(decision, reason) ==
    [decision EXCEPT !.approved = FALSE, !.reason = Some(reason),
                     !.size = None, !.notional = None]

\* The cooldown test of _build_decision: `self.cooldown_until and now < self.cooldown_until`.
cooldown_blocks_inclusive(cu, t) == ~IsNone(cu) /\ t <= cu[1]
cooldown_blocks(cu, t) == ~IsNone(cu) /\ t < cu[1]

\* RiskEngine._build_decision(signal, mkt, now); a variant that tests the
\* cooldown before the daily loss limit comes first.
build_decision_cooldown_first(signal, mkt, t, ds, cu, lim) ==
    LET d0 == NewDecision(signal)
        ra == risk_amount(lim, signal.target_risk_pct, signal.metadata.virtual_equity)
        d1 == [d0 EXCEPT !.risk_amount = ra]
        use_target == ~IsNone(signal.target_notional) /\ signal.target_notional[1] # 0
        distance == IF IsNone(signal.sl_price) THEN 0
                    ELSE Abs(signal.entry_price - signal.sl_price[1])
        raw_notional == IF use_target THEN signal.target_notional[1]
                        ELSE IF distance > 0 THEN (ra \div distance) * signal.entry_price
                        ELSE 0
        cap == max_notional(lim, signal.symbol)
        notional == IF raw_notional > cap THEN cap ELSE raw_notional
        d2 == [d1 EXCEPT !.notional = Some(notional),
                         !.size = Some(notional \div signal.entry_price)]
        max_slip == IF ~IsNone(signal.metadata.max_slippage_bps)
                    THEN signal.metadata.max_slippage_bps
                    ELSE lim.max_slippage_bps
        slip_on == ~IsNone(max_slip) /\ max_slip[1] # 0 /\ ~IsNone(mkt)
        \* expected = max(avg_slippage_bps, spread_bps * 0.5), compared doubled
        expected2 == Max(2 * mkt[1].avg_slippage_bps, mkt[1].spread_bps)
    IN IF cooldown_blocks(cu, t) THEN reject(d0, "cooldown_active")
       ELSE IF breach_limit(ds, lim) THEN reject(d0, "daily_loss_limit")
       ELSE IF IsNone(signal.sl_price) THEN reject(d0, "missing_sl_price")
       ELSE IF ra <= 0 THEN reject(d1, "invalid_risk_amount")
       ELSE IF ~use_target /\ distance <= 0 THEN reject(d1, "zero_sl_distance")
       ELSE IF notional <= 0 THEN reject(d1, "notional_underflow")
       ELSE IF slip_on /\ expected2 > 2 * max_slip[1] THEN reject(d2, "slippage_filter")
       ELSE d2

build_decision(signal, mkt, t, ds, cu, lim) ==
    LET d0 == NewDecision(signal)
        ra == risk_amount(lim, signal.target_risk_pct, signal.metadata.virtual_equity)
        d1 == [d0 EXCEPT !.risk_amount = ra]
        use_target == ~IsNone(signal.target_notional) /\ signal.target_notional[1] # 0
        distance == IF IsNone(signal.sl_price) THEN 0
                    ELSE Abs(signal.entry_price - signal.sl_price[1])
        raw_notional == IF use_target THEN signal.target_notional[1]
                        ELSE IF distance > 0 THEN (ra \div distance) * signal.entry_price
                        ELSE 0
        cap == max_notional(lim, signal.symbol)
        notional == IF raw_notional > cap THEN cap ELSE raw_notional
        d2 == [d1 EXCEPT !.notional = Some(notional),
                         !.size = Some(notional \div signal.entry_price)]
        max_slip == IF ~IsNone(signal.metadata.max_slippage_bps)
                    THEN signal.metadata.max_slippage_bps
                    ELSE lim.max_slippage_bps
        slip_on == ~IsNone(max_slip) /\ max_slip[1] # 0 /\ ~IsNone(mkt)
        \* expected = max(avg_slippage_bps, spread_bps * 0.5), compared doubled
        expected2 == Max(2 * mkt[1].avg_slippage_bps, mkt[1].spread_bps)
    IN IF breach_limit(ds, lim) THEN reject(d0, "daily_loss_limit")
       ELSE IF cooldown_blocks(cu, t) THEN reject(d0, "cooldown_active")
       ELSE IF IsNone(signal.sl_price) THEN reject(d0, "missing_sl_price")
       ELSE IF ra <= 0 THEN reject(d1, "invalid_risk_amount")
       ELSE IF ~use_target /\ distance <= 0 THEN reject(d1, "zero_sl_distance")
       ELSE IF notional <= 0 THEN reject(d1, "notional_underflow")
       ELSE IF slip_on /\ expected2 > 2 * max_slip[1] THEN reject(d2, "slippage_filter")
       ELSE d2

\* The slot count of assess_signals; a variant that ignores the open positions
\* comes first.
available_slots_unclamped_free(lim, open_positions) == lim.max_concurrent_positions

available_slots(lim, open_positions) ==
    Max(0, lim.max_concurrent_positions
           - Cardinality({s \in DOMAIN open_positions : open_positions[s].size # 0}))

\* The loop of assess_signals over the filtered signals.
RECURSIVE assess_loop(_, _, _, _, _, _, _, _)
assess_loop(filtered, slots, open_positions, market, t, ds, cu, lim) ==
    IF filtered = <<>> THEN <<>>
    ELSE LET signal == Head(filtered)
             mkt == IF signal.symbol \in DOMAIN market THEN Some(market[signal.symbol])
                    ELSE None
             d == build_decision(signal, mkt, t, ds, cu, lim)
             is_new == signal.symbol \notin DOMAIN open_positions /\ d.approved
             decision == IF is_new /\ slots <= 0
                         THEN reject(d, "max_concurrent_positions_reached") ELSE d
             slots2 == IF is_new /\ slots > 0 THEN slots - 1 ELSE slots
         IN <<decision>> \o assess_loop(Tail(filtered), slots2, open_positions, market,
                                        t, ds, cu, lim)

\* RiskEngine.assess_signals(signals, open_positions, market_state, now): the
\* decisions returned, computed on the state after the session roll.
assess_signals(signals, open_positions, market, t, ds, cu, lim) ==
    LET r == roll_session(ds, cu, t)
    IN assess_loop(resolve_conflicts(signals), available_slots(lim, open_positions),
                   open_positions, market, t, r.daily_state, r.cooldown_until, lim)

\* RiskEngine.record_trade_pnl(realized_pnl, when): the daily state and
\* cooldown after the call.  A variant in which a trade that is not a loss
\* clears the cooldown comes first.
record_trade_pnl_win_clears(realized_pnl, when, ds, cu, lim) ==
    LET r == roll_session(ds, cu, when)
    IN [daily_state |-> [r.daily_state EXCEPT !.realized_pnl = @ + realized_pnl],
        cooldown_until |-> IF realized_pnl < 0
                           THEN Some(when + lim.cooldown_after_loss_min * 60)
                           ELSE None]

record_trade_pnl(realized_pnl, when, ds, cu, lim) ==
    LET r == roll_session(ds, cu, when)
    IN [daily_state |-> [r.daily_state EXCEPT !.realized_pnl = @ + realized_pnl],
        cooldown_until |-> IF realized_pnl < 0
                           THEN Some(when + lim.cooldown_after_loss_min * 60)
                           ELSE r.cooldown_until]

--------------------------------------------------------------------------
(* A PositionState (app/risk/models.py) *)

Position(symbol, side, size, entry_price, sl_price, open_time, mode, params, time_stop_at) ==
    [symbol |-> symbol, side |-> side, size |-> size, entry_price |-> entry_price,
     open_time |-> open_time, initial_sl_price |-> sl_price, current_sl_price |-> sl_price,
     trailing_mode |-> mode, trailing_params |-> params, time_stop_at |-> time_stop_at,
     tp_levels |-> <<>>, tp_state |-> [tp1 |-> FALSE, tp2 |-> FALSE], realized_pnl |-> 0]

EmptyMap == [x \in {} |-> 0]
NoCall == [op |-> "init", t |-> 0, pnl |-> 0, rolled |-> FALSE, signals |-> <<>>,
           open_positions |-> EmptyMap, market |-> EmptyMap, order |-> None, reply |-> None,
           pnl_calls |-> <<>>, decision |-> None, mkt |-> None, sent |-> <<>>,
           trail_calls |-> <<>>, snapshots |-> <<>>, raised |-> FALSE, repeat |-> FALSE]
NoHist == [breached |-> FALSE, last_loss_at |-> None, trades |-> 0]
NoRuntime == None

\* RiskEngine.__init__ at time 0 with the given limits.
RiskConstructed(lim) ==
    /\ now = 0
    /\ limits = lim
    /\ daily_state = [session_date |-> SessionKey(0), realized_pnl |-> 0]
    /\ cooldown_until = None
    /\ decisions = <<>>

\* ExecutionEngine.__post_init__ with the given position map (empty at
\* construction; the trailing-stop runs start from one open position).
ExecConstructed(open_positions) ==
    /\ positions = open_positions
    /\ intents = EmptyMap
    /\ entry_intents = {}
    /\ active_orders = EmptyMap
    /\ submitted = 0
    /\ reports = <<>>

\* The clock moves forward to a later instant.
Advance ==
    /\ \E t \in Times : t > now /\ now' = t
    /\ UNCHANGED <<runtime, riskVars, execVars, last, hist>>

--------------------------------------------------------------------------
(* Trailing stop: one open position under repeated trailing-stop updates *)

TrailPrices == {9000, 9500, 10000, 10500, 11000, 20000}
TrailModes == {None, Some("none"), Some("ema_atr"), Some("percent"), Some("custom")}
TrailParams ==
    {NoParams,
     [NoParams EXCEPT !.atr_override = Some(1000)],
     [NoParams EXCEPT !.trail_atr_mult = Some(1)],
     [NoParams EXCEPT !.trail_percent = Some(5)],
     [NoParams EXCEPT !.dynamic_sl_price = Some(9700)],
     [NoParams EXCEPT !.dynamic_sl_price = Some(10300)]}
TrailMarkets ==
    {[Market(p, 2, 4000000) EXCEPT !.ATR_14_5m = a, !.atr_q_5m = q] :
        p \in TrailPrices, a \in {0, 500}, q \in {0, 100}}

InitTrail ==
    /\ runtime = NoRuntime
    /\ RiskConstructed(SampleLimits(2))
    /\ \E side \in Sides, sl \in {9500, 10500}, mode \in TrailModes :
         ExecConstructed([s \in {"BTCUSDT"} |->
                            Position(s, side, Qty(1), 10000, sl, 0, mode, NoParams, None)])
    /\ last = NoCall
    /\ hist = NoHist

\* RiskEngine.apply_trailing_stop(position, mkt); the parameters of the
\* position's trailing mode are whatever the strategy plugged in for this call.
ApplyTrailingStop ==
    /\ \E s \in DOMAIN positions, mkt \in TrailMarkets, params \in TrailParams :
         /\ positions' = [positions EXCEPT
                ![s] = apply_trailing_stop([positions[s] EXCEPT !.trailing_params = params], mkt)]
         /\ last' = [NoCall EXCEPT !.op = "apply_trailing_stop"]
    /\ UNCHANGED <<runtime, now, riskVars, intents, entry_intents, active_orders, submitted,
                   reports, hist>>

\* PositionState.update_sl(new_price) called directly.
UpdateSl ==
    /\ \E s \in DOMAIN positions, p \in TrailPrices :
         /\ positions' = [positions EXCEPT ![s] = update_sl(positions[s], p)]
         /\ last' = [NoCall EXCEPT !.op = "update_sl"]
    /\ UNCHANGED <<runtime, now, riskVars, intents, entry_intents, active_orders, submitted,
                   reports, hist>>

NextTrail == ApplyTrailingStop \/ UpdateSl

SpecTrail == InitTrail /\ [][NextTrail]_vars

\* C1: under any sequence of trailing-stop updates (apply_trailing_stop in
\* every mode, update_sl), the current stop of a long position never
\* decreases and the current stop of a short position never increases; a
\* candidate that would loosen the stop leaves it unchanged.
C1_StopMonotone ==
    [][\A s \in DOMAIN positions :
          /\ s \in DOMAIN positions'
          /\ positions[s].side = LONG =>
                positions'[s].current_sl_price >= positions[s].current_sl_price
          /\ positions[s].side = SHORT =>
                positions'[s].current_sl_price <= positions[s].current_sl_price]_vars

\* A long position whose stop was tightened above its initial stop by a
\* trailing update, and a short one tightened below it.
C1_Witness ==
    /\ last.op = "apply_trailing_stop"
    /\ \E s \in DOMAIN positions :
         /\ positions[s].side = LONG
         /\ positions[s].current_sl_price > positions[s].initial_sl_price
         /\ positions[s].trailing_params # NoParams

--------------------------------------------------------------------------
(* RiskEngine alone: assess_signals and record_trade_pnl called in any order *)

MaxTrades == 2

\* Signals offered to the RiskEngine: three symbols, two strategies on BTC, a
\* signal without a stop.
RiskSignals ==
    {Signal("BTCUSDT", LONG, STRATEGY_A, 100, Some(95)),
     Signal("BTCUSDT", SHORT, STRATEGY_B, 100, Some(105)),
     Signal("ETHUSDT", LONG, STRATEGY_C, 100, Some(90)),
     Signal("SOLUSDT", SHORT, STRATEGY_A, 100, Some(105)),
     Signal("SOLUSDT", LONG, STRATEGY_B, 100, None)}

SignalLists(pool) == UNION {[1..n -> pool] : n \in 0..MaxSignals}

\* open_positions mappings handed to assess_signals: none, one, an entry of
\* size zero, two.
HeldPosition(s, size) == Position(s, LONG, size, 100, 95, 0, None, NoParams, None)
RiskOpenPositions ==
    {EmptyMap,
     [s \in {"ETHUSDT"} |-> HeldPosition(s, Qty(1))],
     [s \in {"ETHUSDT"} |-> HeldPosition(s, 0)],
     [s \in {"BTCUSDT", "ETHUSDT"} |-> HeldPosition(s, Qty(1))]}

CalmMarket == [s \in Symbols |-> Market(100, 2, 4000000)]
RiskMarkets == {CalmMarket, [s \in {"BTCUSDT"} |-> Market(100, 40, 4000000)]}

\* Realized PnL of one trade: losses of 500 and 1,000, a win of 500, break-even.
RiskPnls == {Usd(0 - 1000), Usd(0 - 500), 0, Usd(500)}

\* The signal lists assessed between trades: one signal, and two new symbols.
SessionSignals ==
    {<<Signal("BTCUSDT", LONG, STRATEGY_A, 100, Some(95))>>,
     <<Signal("BTCUSDT", LONG, STRATEGY_A, 100, Some(95)),
       Signal("SOLUSDT", SHORT, STRATEGY_A, 100, Some(105))>>}

InitRisk ==
    /\ runtime = NoRuntime
    /\ \E n \in {1, 2} : RiskConstructed(SampleLimits(n))
    /\ ExecConstructed(EmptyMap)
    /\ last = NoCall
    /\ hist = NoHist

\* What the session history records when an operation rolls the session.
HistRolled(t) == IF SessionKey(t) # daily_state.session_date THEN NoHist ELSE hist

\* RiskEngine.assess_signals(signals, open_positions, market_state, now)
AssessSignals ==
    /\ \E signals \in SessionSignals, open \in {EmptyMap}, market \in {CalmMarket} :
         /\ decisions' = assess_signals(signals, open, market, now, daily_state,
                                        cooldown_until, limits)
         /\ last' = [op |-> "assess_signals", t |-> now, pnl |-> 0,
                     rolled |-> SessionKey(now) # daily_state.session_date,
                     signals |-> <<>>, open_positions |-> EmptyMap, market |-> EmptyMap,
                     order |-> None, reply |-> None]
    /\ LET r == roll_session(daily_state, cooldown_until, now)
       IN /\ daily_state' = r.daily_state
          /\ cooldown_until' = r.cooldown_until
    /\ hist' = HistRolled(now)
    /\ UNCHANGED <<runtime, now, limits, execVars>>

\* RiskEngine.record_trade_pnl(realized_pnl, when)
RecordTradePnl ==
    /\ HistRolled(now).trades < MaxTrades
    /\ \E pnl \in RiskPnls :
         LET r == record_trade_pnl(pnl, now, daily_state, cooldown_until, limits)
             h == HistRolled(now)
         IN /\ daily_state' = r.daily_state
            /\ cooldown_until' = r.cooldown_until
            /\ last' = [op |-> "record_trade_pnl", t |-> now, pnl |-> pnl,
                        rolled |-> SessionKey(now) # daily_state.session_date,
                        signals |-> <<>>, open_positions |-> EmptyMap, market |-> EmptyMap,
                     order |-> None, reply |-> None]
            /\ hist' = [breached |-> h.breached \/ breach_limit(r.daily_state, limits),
                        last_loss_at |-> IF pnl < 0 THEN Some(now) ELSE h.last_loss_at,
                        trades |-> h.trades + 1]
    /\ decisions' = <<>>
    /\ UNCHANGED <<runtime, now, limits, execVars>>

NextRisk == Advance \/ AssessSignals \/ RecordTradePnl

SpecRisk == InitRisk /\ [][NextRisk]_vars

DecisionReasons == {decisions[i].reason : i \in 1..Len(decisions)}

\* C2 (as claimed): once the session's realized PnL has reached the daily loss
\* limit, every signal assessed later in the same session is rejected with
\* daily_loss_limit, whatever record_trade_pnl calls come in between.
C2_BreakerStaysTripped ==
    (last.op = "assess_signals" /\ hist.breached) =>
        \A i \in 1..Len(decisions) : decisions[i].reason = Some("daily_loss_limit")

CooldownOnlyElapses ==
    /\ (last'.op = "record_trade_pnl" /\ last'.pnl >= 0) => cooldown_until' = cooldown_until
    /\ last'.op = "assess_signals" =>
          \A i \in 1..Len(decisions') :
              decisions'[i].reason \in {Some("daily_loss_limit"), Some("cooldown_active")}
    /\ \/ cooldown_until' = cooldown_until
       \/ last'.op = "record_trade_pnl" /\ last'.pnl < 0

--------------------------------------------------------------------------
(* assess_signals as a function of its inputs *)

\* The RiskEngine states an assessment starts from: fresh, in cooldown, breaker
\* tripped.
AssessStates ==
    {[realized_pnl |-> 0, cooldown_until |-> None],
     [realized_pnl |-> Usd(0 - 500), cooldown_until |-> Some(1800)],
     [realized_pnl |-> Usd(0 - 1000), cooldown_until |-> None]}

InitAssess ==
    /\ runtime = NoRuntime
    /\ \E n \in 0..3, st \in AssessStates, t \in {0, 1800},
          signals \in SignalLists(RiskSignals), open \in RiskOpenPositions,
          market \in RiskMarkets :
         /\ now = t
         /\ limits = SampleLimits(n)
         /\ daily_state = [session_date |-> SessionKey(0), realized_pnl |-> st.realized_pnl]
         /\ cooldown_until = st.cooldown_until
         /\ decisions = <<>>
         /\ last = [NoCall EXCEPT !.op = "input", !.t = t, !.signals = signals,
                               !.open_positions = open, !.market = market]
    /\ ExecConstructed(EmptyMap)
    /\ hist = NoHist

\* RiskEngine.assess_signals applied to the inputs drawn.
Assess ==
    /\ last.op = "input"
    /\ decisions' = assess_signals(last.signals, last.open_positions, last.market, now,
                                   daily_state, cooldown_until, limits)
    /\ LET r == roll_session(daily_state, cooldown_until, now)
       IN /\ daily_state' = r.daily_state
          /\ cooldown_until' = r.cooldown_until
    /\ last' = [last EXCEPT !.op = "assess_signals"]
    /\ UNCHANGED <<runtime, now, limits, execVars, hist>>

NextAssess == Assess

SpecAssess == InitAssess /\ [][NextAssess]_vars

\* Decisions of the last assessment for symbols not in open_positions.
NewSymbol(i) == decisions[i].symbol \notin DOMAIN last.open_positions
ApprovedNew(upto) == {j \in 1..upto : decisions[j].approved /\ NewSymbol(j)}

\* C8: in one assess_signals call the approved decisions for symbols not in
\* open_positions number at most max(0, max_concurrent_positions - open
\* positions of non-zero size); a new-symbol signal that passes every other
\* check once the slots are used is rejected with
\* max_concurrent_positions_reached; a held symbol's signal is never rejected
\* for that reason.
C8_ConcurrencyCap ==
    last.op = "assess_signals" =>
        LET open == last.open_positions
            nonzero == {s \in DOMAIN open : open[s].size # 0}
            cap == limits.max_concurrent_positions - Cardinality(nonzero)
            slots == IF cap > 0 THEN cap ELSE 0
            mkt(i) == IF decisions[i].symbol \in DOMAIN last.market
                      THEN Some(last.market[decisions[i].symbol]) ELSE None
            passes(i) == build_decision(decisions[i].signal, mkt(i), last.t, daily_state,
                                        cooldown_until, limits).approved
        IN /\ Cardinality(ApprovedNew(Len(decisions))) <= slots
           /\ \A i \in 1..Len(decisions) :
                /\ ~NewSymbol(i) =>
                      decisions[i].reason # Some("max_concurrent_positions_reached")
                /\ (NewSymbol(i) /\ passes(i)
                    /\ Cardinality(ApprovedNew(i - 1)) >= slots) =>
                      decisions[i].reason = Some("max_concurrent_positions_reached")
                /\ (NewSymbol(i) /\ passes(i)
                    /\ Cardinality(ApprovedNew(i - 1)) < slots) => decisions[i].approved

\* One slot, one position of non-zero size held: the held symbol's signal is
\* approved and the new symbol's signal is rejected for the cap.
C8_Witness ==
    /\ last.op = "assess_signals"
    /\ Len(decisions) = 2
    /\ \E i, j \in 1..2 :
         /\ ~NewSymbol(i) /\ decisions[i].approved
         /\ NewSymbol(j)
         /\ decisions[j].reason = Some("max_concurrent_positions_reached")
    /\ limits.max_concurrent_positions = 1

--------------------------------------------------------------------------
(* app/execution/execution_engine.py: ExecutionEngine *)

DefaultEntryTtlSec == 300
DefaultBarSeconds == 300

PENDING == "pending"
ACTIVE == "active"
FILLED == "filled"
CANCELLED == "cancelled"
REJECTED == "rejected"
ORDER_NEW == "new"
PARTIALLY_FILLED == "partially_filled"
TerminalStatuses == {FILLED, CANCELLED, REJECTED}

\* An ExecutionReport (app/execution/models.py).
Report(event, intent, quantity, price, order_id, reason) ==
    [event |-> event, symbol |-> intent.symbol, side |-> intent.side,
     quantity |-> quantity, price |-> price, intent_id |-> Some(intent.intent_id),
     order_id |-> order_id, reason |-> reason]

ExitReport(event, pos, quantity, price, reason) ==
    [event |-> event, symbol |-> pos.symbol, side |-> pos.side, quantity |-> quantity,
     price |-> price, intent_id |-> None, order_id |-> None, reason |-> Some(reason)]

\* The engines' mutable state as one value e, threaded through the helpers:
\* [positions, intents, entry_intents, active_orders, submitted, daily_state,
\*  cooldown_until, ret], ret being the list the innermost call returns, with
\* pnl_calls (the amounts passed to the PnL callback), sent (the orders
\* handed to the gateway) and trail_calls (the symbols passed to the trailing
\* callback) during the operation.
Remove(f, k) == [x \in DOMAIN f \ {k} |-> f[x]]
Put(f, k, v) == [x \in DOMAIN f \cup {k} |-> IF x = k THEN v ELSE f[x]]
SetStatus(e, id, status) == [e EXCEPT !.intents[id].status = status]

\* ExecutionEngine._open_position_from_fill(intent, fill_price, qty, now): the
\* new PositionState replaces whatever the map held for the symbol.  A variant
\* that returns no ENTRY_FILLED report comes first.
open_position_from_fill_silent(e, id, fill_price, qty, t) ==
    LET intent == e.intents[id]
        pos == [Position(intent.symbol, intent.side, qty, fill_price, intent.sl_price, t,
                         intent.metadata.trailing_mode, intent.metadata.trailing_params, None)
                  EXCEPT !.tp_levels = intent.tp_levels]
    IN [SetStatus(e, id, FILLED) EXCEPT
          !.positions = Put(e.positions, intent.symbol, pos), !.ret = <<>>]

open_position_from_fill(e, id, fill_price, qty, t) ==
    LET intent == e.intents[id]
        bars == intent.metadata.time_stop_bars
        time_stop_at == IF ~IsNone(bars) /\ bars[1] # 0
                        THEN Some(t + DefaultBarSeconds * bars[1]) ELSE None
        pos == [Position(intent.symbol, intent.side, qty, fill_price, intent.sl_price, t,
                         intent.metadata.trailing_mode, intent.metadata.trailing_params,
                         time_stop_at)
                  EXCEPT !.tp_levels = intent.tp_levels]
    IN [SetStatus(e, id, FILLED) EXCEPT
          !.positions = Put(e.positions, intent.symbol, pos),
          !.ret = <<Report("entry_filled", intent, qty, fill_price, None, None)>>]

\* The last branch of handle_order_update, for an order still working (NEW,
\* PARTIALLY_FILLED); a variant that does not record the filled quantity comes
\* first.
order_working_stale(e, id, order) == SetStatus(e, id, ACTIVE)

order_working(e, id, order) ==
    [SetStatus(e, id, ACTIVE) EXCEPT !.intents[id].filled_qty = order.filled_qty]

\* ExecutionEngine.handle_order_update(order, now); a variant that looks the
\* intent up among all intents ever created comes first.
handle_order_update_any_intent(e, order, t) ==
    LET e0 == [e EXCEPT !.active_orders = Put(e.active_orders, order.order_id, order),
                        !.ret = <<>>]
        id == order.intent_id
        intent == e.intents[id]
    IN IF id \notin DOMAIN e.intents THEN e0
       ELSE IF order.status = FILLED THEN
           [open_position_from_fill(e0, id, order.avg_fill_price, order.filled_qty, t)
              EXCEPT !.entry_intents = e.entry_intents \ {id}]
       ELSE IF order.status = CANCELLED THEN
           LET filled_qty == Max(order.filled_qty, 0)
               remaining_qty == Max(intent.size - filled_qty, 0)
               avg_price == IF order.avg_fill_price # 0 THEN order.avg_fill_price
                            ELSE intent.entry_price
               e1 == IF filled_qty > 0
                     THEN open_position_from_fill(e0, id, avg_price, filled_qty, t) ELSE e0
           IN [SetStatus(e1, id, CANCELLED) EXCEPT
                 !.entry_intents = e.entry_intents \ {id},
                 !.ret = e1.ret \o <<Report("entry_cancelled", intent, remaining_qty,
                                            intent.entry_price, Some(order.order_id),
                                            Some("order_cancelled"))>>]
       ELSE IF order.status = REJECTED THEN
           [SetStatus(e0, id, REJECTED) EXCEPT
                 !.entry_intents = e.entry_intents \ {id},
                 !.ret = <<Report("entry_rejected", intent, 0, intent.entry_price,
                                  Some(order.order_id), Some("gateway_rejected"))>>]
       ELSE order_working(e0, id, order)

handle_order_update(e, order, t) ==
    LET e0 == [e EXCEPT !.active_orders = Put(e.active_orders, order.order_id, order),
                        !.ret = <<>>]
        id == order.intent_id
        intent == e.intents[id]
    IN IF id \notin e.entry_intents THEN e0
       ELSE IF order.status = FILLED THEN
           [open_position_from_fill(e0, id, order.avg_fill_price, order.filled_qty, t)
              EXCEPT !.entry_intents = e.entry_intents \ {id}]
       ELSE IF order.status = CANCELLED THEN
           LET filled_qty == Max(order.filled_qty, 0)
               remaining_qty == Max(intent.size - filled_qty, 0)
               avg_price == IF order.avg_fill_price # 0 THEN order.avg_fill_price
                            ELSE intent.entry_price
               e1 == IF filled_qty > 0
                     THEN open_position_from_fill(e0, id, avg_price, filled_qty, t) ELSE e0
           IN [SetStatus(e1, id, CANCELLED) EXCEPT
                 !.entry_intents = e.entry_intents \ {id},
                 !.ret = e1.ret \o <<Report("entry_cancelled", intent, remaining_qty,
                                            intent.entry_price, Some(order.order_id),
                                            Some("order_cancelled"))>>]
       ELSE IF order.status = REJECTED THEN
           [SetStatus(e0, id, REJECTED) EXCEPT
                 !.entry_intents = e.entry_intents \ {id},
                 !.ret = <<Report("entry_rejected", intent, 0, intent.entry_price,
                                  Some(order.order_id), Some("gateway_rejected"))>>]
       ELSE order_working(e0, id, order)

\* What gateway.submit_order does with an order: it raises, or returns the
\* ActiveOrder as new (resting) or already FILLED.
GatewayReplies == {"raise", ORDER_NEW, FILLED}

\* The OrderIntent built for an intent: a fill-or-kill market order
\* (_execute_market_intent) or a post-only limit order at the intent's entry
\* price (_maybe_trigger_limit).
OrderIntent(intent, order_type) ==
    [symbol |-> intent.symbol, side |-> intent.side, order_type |-> order_type,
     quantity |-> intent.size,
     price |-> IF order_type = "limit" THEN Some(intent.entry_price) ELSE None,
     time_in_force |-> IF order_type = "limit" THEN "GTC" ELSE "FOK",
     post_only |-> order_type = "limit", client_order_id |-> intent.intent_id]

\* ExecutionEngine._submit_order(intent, order): the order is handed to the
\* gateway (sent).  fill_price is the price an
\* immediately filling gateway reports; the callers take the gateway to fill
\* at the intent's entry price.  A variant that leaves the intent's status
\* alone when the gateway raises comes first.
submit_order_raise_unmarked(e, id, order_type, reply, fill_price, t) ==
    LET intent == e.intents[id]
        e0 == [e EXCEPT !.submitted = @ + 1,
                        !.sent = Append(@, OrderIntent(intent, order_type))]
        order_id == Cardinality(DOMAIN e.active_orders) + 1
        active_order ==
            [order_id |-> order_id, intent_id |-> id, symbol |-> intent.symbol,
             order_type |-> order_type, quantity |-> intent.size, status |-> reply,
             filled_qty |-> IF reply = FILLED THEN intent.size ELSE 0,
             avg_fill_price |-> fill_price]
        e1 == [e0 EXCEPT !.active_orders = Put(e.active_orders, order_id, active_order)]
    IN IF reply = "raise" THEN e0
       ELSE IF reply = FILLED
            THEN [handle_order_update(e1, active_order, t) EXCEPT !.ret = e.ret]
            ELSE e1

submit_order(e, id, order_type, reply, fill_price, t) ==
    LET intent == e.intents[id]
        e0 == [e EXCEPT !.submitted = @ + 1,
                        !.sent = Append(@, OrderIntent(intent, order_type))]
        order_id == Cardinality(DOMAIN e.active_orders) + 1
        active_order ==
            [order_id |-> order_id, intent_id |-> id, symbol |-> intent.symbol,
             order_type |-> order_type, quantity |-> intent.size, status |-> reply,
             filled_qty |-> IF reply = FILLED THEN intent.size ELSE 0,
             avg_fill_price |-> fill_price]
        e1 == [e0 EXCEPT !.active_orders = Put(e.active_orders, order_id, active_order)]
    IN IF reply = "raise" THEN SetStatus(e0, id, REJECTED)
       ELSE IF reply = FILLED
            THEN [handle_order_update(e1, active_order, t) EXCEPT !.ret = e.ret]
            ELSE e1

\* ExecutionEngine._estimate_slippage(intent, mkt) > limit, with
\* expected = spread_bps * 0.5 + notional / max(depth, 1) * 10000 and both
\* sides of the comparison multiplied by 2 * depth.  A variant without the
\* depth component comes first.
slippage_exceeds_spread_only(intent, mkt, limit) ==
    IF IsNone(mkt) THEN 0 > limit ELSE mkt[1].spread_bps > 2 * limit

slippage_exceeds(intent, mkt, limit) ==
    IF IsNone(mkt) THEN 0 > limit
    ELSE LET notional == (intent.size * intent.entry_price) \div 1000
             depth == Max(mkt[1].depth_pm1_usd, 1)
         IN mkt[1].spread_bps * depth + 2 * notional * 10000 > 2 * limit * depth

\* ExecutionEngine._execute_market_intent(intent, mkt, decision)
execute_market_intent(e, id, mkt, decision, reply, t) ==
    LET intent == e.intents[id]
        limit == IF ~IsNone(decision.metadata.max_slippage_bps)
                 THEN decision.metadata.max_slippage_bps ELSE limits.max_slippage_bps
    IN IF ~IsNone(limit) /\ limit[1] # 0 /\ slippage_exceeds(intent, mkt, limit[1])
       THEN SetStatus(e, id, REJECTED)
       ELSE submit_order(e, id, "market", reply, intent.entry_price, t)

\* ExecutionEngine._hit_retest(side, price, trigger_price); a variant with the
\* long rule for both sides comes first.
hit_retest_long_rule(side, price, trigger_price) == price <= trigger_price

hit_retest(side, price, trigger_price) ==
    IF side = LONG THEN price <= trigger_price ELSE price >= trigger_price

\* ExecutionEngine._maybe_trigger_limit(intent, mkt, now)
maybe_trigger_limit(e, id, mkt, reply, t) ==
    LET intent == e.intents[id]
    IN IF hit_retest(intent.side, mkt.mid_price, intent.entry_price)
       THEN submit_order(SetStatus(e, id, ACTIVE), id, "limit", reply, intent.entry_price, t)
       ELSE e

\* ExecutionEngine._track_limit_intent(intent, mkt)
track_limit_intent(e, id, mkt, reply, t) ==
    LET e0 == SetStatus(e, id, PENDING)
    IN IF ~IsNone(mkt) THEN maybe_trigger_limit(e0, id, mkt[1], reply, t) ELSE e0

\* ExecutionEngine.handle_risk_decision(decision, mkt, now); ret is the intent
\* id returned, or nothing.
handle_risk_decision(e, decision, mkt, reply, t) ==
    IF ~decision.approved \/ IsNone(decision.size) \/ IsNone(decision.sl_price)
    THEN [e EXCEPT !.ret = None]
    ELSE LET id == Cardinality(DOMAIN e.intents) + 1
             ttl == IF ~IsNone(decision.metadata.entry_ttl_seconds)
                    THEN decision.metadata.entry_ttl_seconds[1] ELSE DefaultEntryTtlSec
             intent ==
                 [intent_id |-> id, symbol |-> decision.symbol,
                  strategy_id |-> decision.strategy_id, side |-> decision.side,
                  size |-> decision.size[1], entry_price |-> decision.signal.entry_price,
                  sl_price |-> decision.sl_price[1], tp_levels |-> decision.tp_levels,
                  entry_type |-> decision.entry_type,
                  created_at |-> t, ttl_seconds |-> ttl, status |-> PENDING,
                  filled_qty |-> 0,
                  metadata |-> [time_stop_bars |-> decision.time_stop_bars,
                                trailing_mode |-> decision.trailing_mode,
                                trailing_params |-> decision.trailing_params]]
             e0 == [e EXCEPT !.intents = Put(e.intents, id, intent),
                             !.entry_intents = e.entry_intents \cup {id}]
             e1 == IF intent.entry_type = "limit_on_retest"
                   THEN track_limit_intent(e0, id, mkt, reply, t)
                   ELSE execute_market_intent(e0, id, mkt, decision, reply, t)
         IN [e1 EXCEPT !.ret = Some(id)]

\* ExecutionEngine._activate_limit_retests(market_state, now) over the live
\* intents from id `from` on (the map iterates in creation order).
RECURSIVE activate_limit_retests(_, _, _, _, _)
activate_limit_retests(e, from, market, reply, t) ==
    IF from > Cardinality(DOMAIN e.intents) THEN e
    ELSE LET intent == e.intents[from]
             rest(e1) == activate_limit_retests(e1, from + 1, market, reply, t)
         IN IF from \notin e.entry_intents \/ intent.entry_type # "limit_on_retest"
               \/ intent.symbol \notin DOMAIN market
            THEN rest(e)
            ELSE IF t >= intent.created_at + intent.ttl_seconds
            THEN rest([SetStatus(e, from, CANCELLED) EXCEPT
                         !.entry_intents = e.entry_intents \ {from},
                         !.ret = Append(e.ret, Report("entry_cancelled", intent, intent.size,
                                                      intent.entry_price, None,
                                                      Some("limit_on_retest_ttl")))])
            ELSE rest(maybe_trigger_limit(e, from, market[intent.symbol], reply, t))

\* ExecutionEngine._calc_pnl(side, entry, exit, qty); a variant that takes every
\* position for a long one comes first.
calc_pnl_long_only(side, entry, exit, qty) == (exit - entry) * qty

calc_pnl(side, entry, exit, qty) ==
    (exit - entry) * qty * (IF side = LONG THEN 1 ELSE 0 - 1)

\* ExecutionEngine._hit_target / _hit_stop
hit_target(side, price, target) == IF side = LONG THEN price >= target ELSE price <= target
hit_stop(side, price, stop_price) ==
    IF side = LONG THEN price <= stop_price ELSE price >= stop_price

\* ExecutionEngine._tp_prices(position, r_value); a variant that takes the
\* targets from the position's tp_levels when it has two comes first.
tp_prices_from_levels(pos, r_value) ==
    LET direction == IF pos.side = LONG THEN 1 ELSE 0 - 1
    IN IF Len(pos.tp_levels) >= 2 THEN <<pos.tp_levels[1].price, pos.tp_levels[2].price>>
       ELSE <<pos.entry_price + direction * r_value,
              pos.entry_price + direction * 2 * r_value>>

\* The position with its prices in thousandths of a price unit, the unit in
\* which the targets are computed and compared.
InThousandths(pos) ==
    [pos EXCEPT !.entry_price = @ * 1000,
                !.tp_levels = [i \in DOMAIN @ |-> [@[i] EXCEPT !.price = @ * 1000]]]

tp_prices(pos, r_value) ==
    LET direction == IF pos.side = LONG THEN 1 ELSE 0 - 1
    IN <<pos.entry_price + direction * r_value, pos.entry_price + direction * 2 * r_value>>

\* PositionState.reduce(fraction), the fraction given as num / den: the closed
\* quantity.  A variant that always closes half comes first.
reduce_half(size, num, den) == size \div 2
reduce(size, num, den) == (size * num) \div den

\* The helpers below work on c = [e, pos, held]: the engines' state (pnl_calls
\* lists the amounts handed to pnl_callback during the call), the
\* PositionState object being processed, and whether the map still holds it.

\* ExecutionEngine._close_fraction(position, fraction, price, now, event, reason),
\* the fraction given as num / den; pnl_callback is RiskEngine.record_trade_pnl
\* (wire_engines).  A variant that reports the close and leaves the size as
\* it was comes first.
close_fraction_keeps_size(c, num, den, price, t, event, reason) ==
    IF c.pos.size <= 0
    THEN [c EXCEPT !.e.ret = Append(c.e.ret, ExitReport(event, c.pos, 0, price,
                                                        reason \o "_noop"))]
    ELSE LET qty == reduce(c.pos.size, num, den)
             new_size == c.pos.size
             pnl == calc_pnl(c.pos.side, c.pos.entry_price, price, qty)
             r == IF pnl # 0
                  THEN record_trade_pnl(pnl, t, c.e.daily_state, c.e.cooldown_until, limits)
                  ELSE [daily_state |-> c.e.daily_state,
                        cooldown_until |-> c.e.cooldown_until]
         IN [e |-> [c.e EXCEPT !.daily_state = r.daily_state,
                               !.cooldown_until = r.cooldown_until,
                               !.pnl_calls = IF pnl # 0 THEN Append(@, pnl) ELSE @,
                               !.ret = Append(c.e.ret,
                                              ExitReport(event, c.pos, qty, price, reason))],
             pos |-> [c.pos EXCEPT !.size = new_size, !.realized_pnl = @ + pnl],
             held |-> c.held /\ new_size > 0]

close_fraction(c, num, den, price, t, event, reason) ==
    IF c.pos.size <= 0
    THEN [c EXCEPT !.e.ret = Append(c.e.ret, ExitReport(event, c.pos, 0, price,
                                                        reason \o "_noop"))]
    ELSE LET qty == reduce(c.pos.size, num, den)
             new_size == Max(0, c.pos.size - qty)
             pnl == calc_pnl(c.pos.side, c.pos.entry_price, price, qty)
             r == IF pnl # 0
                  THEN record_trade_pnl(pnl, t, c.e.daily_state, c.e.cooldown_until, limits)
                  ELSE [daily_state |-> c.e.daily_state,
                        cooldown_until |-> c.e.cooldown_until]
         IN [e |-> [c.e EXCEPT !.daily_state = r.daily_state,
                               !.cooldown_until = r.cooldown_until,
                               !.pnl_calls = IF pnl # 0 THEN Append(@, pnl) ELSE @,
                               !.ret = Append(c.e.ret,
                                              ExitReport(event, c.pos, qty, price, reason))],
             pos |-> [c.pos EXCEPT !.size = new_size, !.realized_pnl = @ + pnl],
             held |-> c.held /\ new_size > 0]

\* ExecutionEngine._check_stops(position, last_price, now); a variant without
\* the return after a stop hit comes first.
check_stops_no_return(c, last_price, t) ==
    LET c1 == IF hit_stop(c.pos.side, last_price, c.pos.current_sl_price)
              THEN close_fraction(c, 1, 1, last_price, t, "stop_loss", "stop_loss")
              ELSE c
    IN IF ~IsNone(c1.pos.time_stop_at) /\ t >= c1.pos.time_stop_at[1]
       THEN close_fraction(c1, 1, 1, last_price, t, "time_stop", "time_stop")
       ELSE c1

check_stops(c, last_price, t) ==
    IF hit_stop(c.pos.side, last_price, c.pos.current_sl_price)
    THEN close_fraction(c, 1, 1, last_price, t, "stop_loss", "stop_loss")
    ELSE IF ~IsNone(c.pos.time_stop_at) /\ t >= c.pos.time_stop_at[1]
    THEN close_fraction(c, 1, 1, last_price, t, "time_stop", "time_stop")
    ELSE c

\* ExecutionEngine._evaluate_position_targets(position, mkt, now).  1R and the
\* targets are in thousandths of a price unit: with no distance between entry
\* and stop 1R is 0.5% of the last price, max(abs(last_price * 0.005), 1e-6),
\* the floor mattering for a price of zero only.  A variant that keeps no
\* record of the rungs that fired comes first.
evaluate_position_targets_unflagged(c, mkt, t) ==
    LET last_price == mkt.mid_price
        risk_per_unit == Abs(c.pos.entry_price - c.pos.initial_sl_price)
        r_value == IF risk_per_unit <= 0 THEN Max(Abs(last_price) * 5, 1)
                   ELSE risk_per_unit * 1000
        targets == tp_prices(InThousandths(c.pos), r_value)
        c1 == IF hit_target(c.pos.side, last_price * 1000, targets[1])
              THEN close_fraction(c, 1, 2, last_price, t, "take_profit", "tp1")
              ELSE c
        c2 == IF hit_target(c1.pos.side, last_price * 1000, targets[2])
              THEN close_fraction(c1, 1, 4, last_price, t, "take_profit", "tp2")
              ELSE c1
    IN check_stops(c2, last_price, t)

evaluate_position_targets(c, mkt, t) ==
    LET last_price == mkt.mid_price
        risk_per_unit == Abs(c.pos.entry_price - c.pos.initial_sl_price)
        r_value == IF risk_per_unit <= 0 THEN Max(Abs(last_price) * 5, 1)
                   ELSE risk_per_unit * 1000
        targets == tp_prices(InThousandths(c.pos), r_value)
        c1 == IF ~c.pos.tp_state.tp1 /\ hit_target(c.pos.side, last_price * 1000, targets[1])
              THEN [close_fraction(c, 1, 2, last_price, t, "take_profit", "tp1")
                      EXCEPT !.pos.tp_state.tp1 = TRUE]
              ELSE c
        c2 == IF ~c1.pos.tp_state.tp2 /\ hit_target(c1.pos.side, last_price * 1000, targets[2])
              THEN [close_fraction(c1, 1, 4, last_price, t, "take_profit", "tp2")
                      EXCEPT !.pos.tp_state.tp2 = TRUE]
              ELSE c1
    IN check_stops(c2, last_price, t)

\* The body of the loop of on_market_snapshot for one position with market
\* data: trailing_callback (RiskEngine.apply_trailing_stop, wire_engines),
\* then _evaluate_position_targets.  trail_calls lists the symbols the
\* callback was invoked for.  A variant that evaluates the exits first and
\* trails the position afterwards comes first.
evaluate_position_trail_after(e, symbol, mkt, t) ==
    LET e0 == [e EXCEPT !.trail_calls = Append(@, symbol)]
        c == evaluate_position_targets([e |-> e0, pos |-> e.positions[symbol], held |-> TRUE],
                                       mkt, t)
    IN [c.e EXCEPT !.positions = IF c.held
                                 THEN Put(e.positions, symbol, apply_trailing_stop(c.pos, mkt))
                                 ELSE Remove(e.positions, symbol)]

evaluate_position(e, symbol, mkt, t) ==
    LET e0 == [e EXCEPT !.trail_calls = Append(@, symbol)]
        c == evaluate_position_targets(
                 [e |-> e0, pos |-> apply_trailing_stop(e.positions[symbol], mkt),
                  held |-> TRUE],
                 mkt, t)
    IN [c.e EXCEPT !.positions = IF c.held THEN Put(e.positions, symbol, c.pos)
                                 ELSE Remove(e.positions, symbol)]

\* The loop of on_market_snapshot over list(self.positions.items()): the
\* symbols of `todo` one after the other.
RECURSIVE evaluate_positions(_, _, _, _)
evaluate_positions(e, todo, market, t) ==
    IF todo = {} THEN e
    ELSE LET symbol == CHOOSE s \in todo : TRUE
         IN evaluate_positions(evaluate_position(e, symbol, market[symbol], t),
                               todo \ {symbol}, market, t)

\* ExecutionEngine.on_market_snapshot(market_state, now)
on_market_snapshot(e, market, reply, t) ==
    LET e1 == activate_limit_retests([e EXCEPT !.ret = <<>>], 1, market, reply, t)
    IN evaluate_positions(e1, DOMAIN e1.positions \cap DOMAIN market, market, t)

\* run_signal_pipeline / the entry half of the main loop: every approved
\* decision of the list goes to handle_risk_decision, in order.
RECURSIVE handle_decisions(_, _, _, _, _)
handle_decisions(e, ds, market, reply, t) ==
    IF ds = <<>> THEN e
    ELSE LET d == Head(ds)
             mkt == IF d.symbol \in DOMAIN market THEN Some(market[d.symbol]) ELSE None
             e1 == IF d.approved THEN handle_risk_decision(e, d, mkt, reply, t) ELSE e
         IN handle_decisions(e1, Tail(ds), market, reply, t)

--------------------------------------------------------------------------
(* The wired engines: entries, market snapshots and order updates *)

MaxOrders == 2

\* Cycle times: the start, and one entry TTL later.
EngineTimes == {0, 300}

\* Limits of the wired engines: one full stop-out (1R = 1% of equity) trips
\* the daily-loss breaker.
EngineLimits(max_positions) == [SampleLimits(max_positions) EXCEPT !.max_daily_loss_pct = 1]

EngineSymbols == {"BTCUSDT"}
EngineSignals ==
    {Signal("BTCUSDT", LONG, STRATEGY_A, 100, Some(95)),
     [Signal("BTCUSDT", LONG, STRATEGY_B, 100, Some(95)) EXCEPT
        !.metadata.entry_execution = Some("limit_on_retest")]}

\* What the strategies emit in one cycle: nothing, one signal, or one signal
\* each (lists up to MaxSignals long, a strategy at most once).
EngineSignalLists ==
    {l \in SignalLists(EngineSignals) :
        \A i, j \in 1..Len(l) : i # j => l[i].strategy_id # l[j].strategy_id}

\* Market snapshots at entry time: at the entry price with a deep book (a
\* market entry passes the slippage check, a limit entry is retested at once),
\* and above the long entry price with a thin book (a market entry fails the
\* slippage check, a limit entry waits for its retest).
PipelineMarkets ==
    {[s \in EngineSymbols |-> Market(100, 2, 4000000)],
     [s \in EngineSymbols |-> Market(105, 2, 1000000)]}

\* Snapshot prices: the long stop and the entry price.
SnapshotPrices == {95, 100}
SnapshotMarkets ==
    UNION {[S -> {Market(p, 2, 4000000) : p \in SnapshotPrices}] :
             S \in (SUBSET EngineSymbols) \ {{}}}

\* What the exchange may report for an order of the given size.
OrderUpdates(order) ==
    LET part == (order.quantity * 4) \div 5
    IN {[order EXCEPT !.status = u.status, !.filled_qty = u.filled_qty,
                      !.avg_fill_price = u.avg_fill_price] :
          u \in {[status |-> PARTIALLY_FILLED, filled_qty |-> part, avg_fill_price |-> 100],
                 [status |-> FILLED, filled_qty |-> order.quantity, avg_fill_price |-> 100],
                 [status |-> CANCELLED, filled_qty |-> part, avg_fill_price |-> 100],
                 [status |-> CANCELLED, filled_qty |-> 0, avg_fill_price |-> 0],
                 [status |-> REJECTED, filled_qty |-> 0, avg_fill_price |-> 0]}}

EngineState ==
    [positions |-> positions, intents |-> intents, entry_intents |-> entry_intents,
     active_orders |-> active_orders, submitted |-> submitted,
     daily_state |-> daily_state, cooldown_until |-> cooldown_until, ret |-> <<>>,
     pnl_calls |-> <<>>, sent |-> <<>>, trail_calls |-> <<>>]

\* The engines' variables after an operation left them as e.
Becomes(e) ==
    /\ positions' = e.positions
    /\ intents' = e.intents
    /\ entry_intents' = e.entry_intents
    /\ active_orders' = e.active_orders
    /\ submitted' = e.submitted
    /\ daily_state' = e.daily_state
    /\ cooldown_until' = e.cooldown_until

\* wire_engines on a fresh RiskEngine and ExecutionEngine.
Init ==
    /\ runtime = NoRuntime
    /\ RiskConstructed(EngineLimits(2))
    /\ ExecConstructed(EmptyMap)
    /\ last = NoCall
    /\ hist = NoHist

\* run_signal_pipeline(signals, risk_engine, execution_engine, market_state, now=now)
RunSignalPipeline ==
    \E signals \in EngineSignalLists, market \in PipelineMarkets,
       reply \in GatewayReplies :
      LET ds == assess_signals(signals, positions, market, now, daily_state,
                               cooldown_until, limits)
          r == roll_session(daily_state, cooldown_until, now)
          e0 == [EngineState EXCEPT !.daily_state = r.daily_state,
                                    !.cooldown_until = r.cooldown_until]
          e == handle_decisions(e0, ds, market, reply, now)
      IN /\ Cardinality(DOMAIN e.intents) <= MaxIntents
         /\ e.submitted <= MaxOrders
         /\ Becomes(e)
         /\ decisions' = ds
         /\ reports' = <<>>
         /\ last' = [NoCall EXCEPT !.op = "run_signal_pipeline"]
         /\ UNCHANGED <<runtime, now, limits, hist>>

\* ExecutionEngine.on_market_snapshot(market_state, now)
OnMarketSnapshot ==
    \E market \in SnapshotMarkets, reply \in GatewayReplies :
      LET e == on_market_snapshot(EngineState, market, reply, now)
      IN /\ e.submitted <= MaxOrders
         /\ Becomes(e)
         /\ reports' = e.ret
         /\ decisions' = <<>>
         /\ last' = [NoCall EXCEPT !.op = "on_market_snapshot"]
         /\ UNCHANGED <<runtime, now, limits, hist>>

\* ExecutionEngine.handle_order_update(order, now): the exchange reports on an
\* order the engine submitted and that it has not reported finished yet.
HandleOrderUpdate ==
    \E order_id \in DOMAIN active_orders :
      /\ active_orders[order_id].status \in {ORDER_NEW, PARTIALLY_FILLED}
      /\ \E order \in OrderUpdates(active_orders[order_id]) :
        LET e == handle_order_update(EngineState, order, now)
        IN /\ Becomes(e)
           /\ reports' = e.ret
           /\ last' = [NoCall EXCEPT !.op = "handle_order_update", !.order = Some(order)]
           /\ decisions' = <<>>
           /\ UNCHANGED <<runtime, now, limits, hist>>

\* The main loop sleeps until a later cycle.
Tick ==
    /\ \E t \in EngineTimes : t > now /\ now' = t
    /\ UNCHANGED <<runtime, riskVars, execVars, last, hist>>

Next == Tick \/ RunSignalPipeline \/ OnMarketSnapshot \/ HandleOrderUpdate

Spec == Init /\ [][Next]_vars

\* The circuit breakers as the next assessment at the current time would see
\* them: the daily-loss breaker tripped or the cooldown active.
BreakersBlock ==
    LET r == roll_session(daily_state, cooldown_until, now)
    IN breach_limit(r.daily_state, limits) \/ cooldown_blocks(r.cooldown_until, now)

\* A step that puts a new position into the position map.
OpensPosition ==
    \E s \in DOMAIN positions' :
        \/ s \notin DOMAIN positions
        \/ positions'[s].size > positions[s].size
        \/ positions'[s].open_time > positions[s].open_time

\* C3 (as claimed): while the daily-loss breaker is tripped or a cooldown is
\* active, no step of the engines submits an entry order to the gateway or
\* opens a new position, whatever entry intents are already live.
C3_BreakersBlockEntries ==
    [][BreakersBlock => (submitted' = submitted /\ ~OpensPosition)]_vars

LiveNonTerminal(symbol) ==
    {id \in entry_intents : /\ intents[id].symbol = symbol
                            /\ intents[id].status \notin TerminalStatuses}

\* C6 (as claimed): after any sequence of cycles the live intent map holds at
\* most one non-terminal EntryIntent per symbol.
C6_OneLiveIntentPerSymbol ==
    \A symbol \in Symbols : Cardinality(LiveNonTerminal(symbol)) <= 1

\* C7 (as claimed): a fill reported to handle_order_update with a positive
\* filled quantity (FILLED, or CANCELLED after a partial fill) for an order the
\* engine submitted (the only order of its intent, still open) is in the
\* position map for its symbol when the call returns, with the filled quantity.
C7_FillsReachPositions ==
    [][(/\ last'.op = "handle_order_update"
        /\ ~IsNone(last'.order)
        /\ last'.order[1].order_id \in DOMAIN active_orders
        /\ active_orders[last'.order[1].order_id].status \in {ORDER_NEW, PARTIALLY_FILLED}
        /\ \A o \in DOMAIN active_orders :
              active_orders[o].intent_id = last'.order[1].intent_id
                  => o = last'.order[1].order_id
        /\ last'.order[1].status \in {FILLED, CANCELLED}
        /\ last'.order[1].filled_qty > 0)
          => (/\ last'.order[1].symbol \in DOMAIN positions'
              /\ positions'[last'.order[1].symbol].size = last'.order[1].filled_qty
              /\ positions'[last'.order[1].symbol].open_time = now)]_vars

\* C9 (as claimed): after each public ExecutionEngine operation returns, no
\* intent in entry_intents has status FILLED, CANCELLED or REJECTED.
C9_TerminalIntentsLeaveMap ==
    \A id \in entry_intents : intents[id].status \notin TerminalStatuses

StatusRank(status) == IF status = PENDING THEN 0 ELSE IF status = ACTIVE THEN 1 ELSE 2

\* C10 (as claimed): an EntryIntent's status only moves forward along
\* PENDING -> ACTIVE -> {FILLED, CANCELLED, REJECTED}, and a FILLED, CANCELLED
\* or REJECTED intent keeps its status under every later operation.
C10_StatusMovesForward ==
    [][\A id \in DOMAIN intents :
          /\ StatusRank(intents'[id].status) >= StatusRank(intents[id].status)
          /\ intents[id].status \in TerminalStatuses =>
                intents'[id].status = intents[id].status]_vars

\* The orders of an intent the exchange has not reported finished.
OutstandingOrders(id) ==
    {o \in DOMAIN active_orders : /\ active_orders[o].intent_id = id
                                  /\ active_orders[o].status \in {ORDER_NEW, PARTIALLY_FILLED}}

\* C11 (as claimed): the retest trigger is evaluated only for intents still
\* PENDING, so an ACTIVE intent gets no further order in later cycles and at
\* most one order is outstanding per intent.
C11_OneOrderPerIntent ==
    \A id \in DOMAIN intents : Cardinality(OutstandingOrders(id)) <= 1

\* C14 (as claimed): a FILLED order update for a live intent leaves the fill in
\* the position map: a new position of the filled quantity at the fill price
\* when the symbol was not held, the held position augmented by the filled
\* quantity when it was; one ENTRY_FILLED report; the intent leaves the map.
C14_FilledOpensOrAugments ==
    [][(/\ last'.op = "handle_order_update"
        /\ ~IsNone(last'.order)
        /\ active_orders[last'.order[1].order_id].status \in {ORDER_NEW, PARTIALLY_FILLED}
        /\ last'.order[1].status = FILLED
        /\ last'.order[1].intent_id \in entry_intents)
          => LET order == last'.order[1]
             IN /\ order.symbol \in DOMAIN positions'
                /\ positions'[order.symbol].size =
                      (IF order.symbol \in DOMAIN positions
                       THEN positions[order.symbol].size ELSE 0) + order.filled_qty
                /\ order.symbol \notin DOMAIN positions =>
                      positions'[order.symbol].entry_price = order.avg_fill_price
                /\ Len(reports') = 1 /\ reports'[1].event = "entry_filled"
                /\ order.intent_id \notin entry_intents']_vars

--------------------------------------------------------------------------
(* The entry lifecycle: ExecutionEngine called directly, as in               *)
(* tests/test_execution/test_execution_entry_intents.py                      *)

\* The approved decisions the RiskEngine builds for the engine signals.
EntryDecisions ==
    {assess_signals(<<s>>, EmptyMap, [x \in EngineSymbols |-> Market(100, 2, 4000000)], 0,
                    [session_date |-> 0, realized_pnl |-> 0], None, EngineLimits(2))[1] :
        s \in EngineSignals}

\* The market state handed over with a decision: none, at the entry price,
\* above it.
EntryMarkets == {None, Some(Market(100, 2, 4000000)), Some(Market(105, 2, 4000000))}

\* Snapshots of a cycle: the symbol at its long stop (a retest), above the
\* long entry (no retest), or without data for the symbol.
EntrySnapshots ==
    {[s \in {"BTCUSDT"} |-> Market(95, 2, 4000000)],
     [s \in {"BTCUSDT"} |-> Market(105, 2, 4000000)],
     [s \in {"ETHUSDT"} |-> Market(100, 2, 4000000)]}

\* ExecutionEngine.handle_risk_decision(decision, mkt, now)
HandleRiskDecision ==
    \E decision \in EntryDecisions, mkt \in EntryMarkets, reply \in GatewayReplies :
      LET e == handle_risk_decision(EngineState, decision, mkt, reply, now)
      IN /\ Cardinality(DOMAIN e.intents) <= MaxIntents
         /\ e.submitted <= MaxOrders
         /\ Becomes(e)
         /\ reports' = <<>>
         /\ decisions' = <<>>
         /\ last' = [NoCall EXCEPT !.op = "handle_risk_decision", !.reply = Some(reply)]
         /\ UNCHANGED <<runtime, now, limits, hist>>

\* ExecutionEngine.on_market_snapshot(market_state, now), the snapshot and the
\* gateway's reply recorded.
SnapshotEntry ==
    \E market \in EntrySnapshots, reply \in GatewayReplies :
      LET e == on_market_snapshot(EngineState, market, reply, now)
      IN /\ e.submitted <= MaxOrders
         /\ Becomes(e)
         /\ reports' = e.ret
         /\ decisions' = <<>>
         /\ last' = [NoCall EXCEPT !.op = "on_market_snapshot", !.market = market,
                                   !.reply = Some(reply)]
         /\ UNCHANGED <<runtime, now, limits, hist>>

NextEntry == Tick \/ HandleRiskDecision \/ SnapshotEntry \/ HandleOrderUpdate

SpecEntry == Init /\ [][NextEntry]_vars

\* A report of the list about the given intent.
ReportsAbout(rs, id) == {i \in 1..Len(rs) : rs[i].intent_id = Some(id)}

\* C12 (as claimed): a limit_on_retest intent that was never retested (still
\* PENDING, no order submitted) is cancelled by the first on_market_snapshot
\* with now >= created_at + ttl: an ENTRY_CANCELLED report with reason
\* limit_on_retest_ttl, the intent out of the live map, no order for it.
C12_TtlCancelsUnretested ==
    [][(last'.op = "on_market_snapshot" /\ now' = now) =>
          \A id \in entry_intents :
              (/\ intents[id].entry_type = "limit_on_retest"
               /\ intents[id].status = PENDING
               /\ now >= intents[id].created_at + intents[id].ttl_seconds)
                 => /\ id \notin entry_intents'
                    /\ intents'[id].status = CANCELLED
                    /\ \E i \in ReportsAbout(reports', id) :
                          /\ reports'[i].event = "entry_cancelled"
                          /\ reports'[i].reason = Some("limit_on_retest_ttl")
                    /\ \A o \in DOMAIN active_orders' : active_orders'[o].intent_id # id]_vars

\* The live limit intents a snapshot submits an order for: data for the symbol,
\* TTL not elapsed, price at or through the entry price.
Triggered(market) ==
    {id \in entry_intents :
        /\ intents[id].entry_type = "limit_on_retest"
        /\ intents[id].symbol \in DOMAIN market
        /\ now < intents[id].created_at + intents[id].ttl_seconds
        /\ IF intents[id].side = LONG
           THEN market[intents[id].symbol].mid_price <= intents[id].entry_price
           ELSE market[intents[id].symbol].mid_price >= intents[id].entry_price}

\* C13: when gateway.submit_order raises during handle_risk_decision or
\* on_market_snapshot, the call returns normally, every intent submitted is
\* REJECTED with no report about it, no active order and no position is
\* recorded, and the rest of the cycle runs: expired intents are still
\* cancelled and positions at their stop are still closed.
C13_GatewayFailureContained ==
    [][(/\ now' = now
        /\ last'.reply = Some("raise")
        /\ submitted' > submitted)
          => /\ active_orders' = active_orders
             /\ ~OpensPosition
             /\ last'.op = "handle_risk_decision" =>
                   LET id == Cardinality(DOMAIN intents) + 1
                   IN /\ DOMAIN intents' = DOMAIN intents \cup {id}
                      /\ intents'[id].status = REJECTED
                      /\ reports' = <<>>
             /\ last'.op = "on_market_snapshot" =>
                   /\ submitted' - submitted = Cardinality(Triggered(last'.market))
                   /\ \A id \in Triggered(last'.market) :
                         /\ intents'[id].status = REJECTED
                         /\ ReportsAbout(reports', id) = {}
                   /\ \A id \in entry_intents :
                         (/\ intents[id].entry_type = "limit_on_retest"
                          /\ intents[id].symbol \in DOMAIN last'.market
                          /\ now >= intents[id].created_at + intents[id].ttl_seconds)
                            => id \notin entry_intents'
                   /\ \A s \in DOMAIN positions \cap DOMAIN last'.market :
                         hit_stop(positions[s].side, last'.market[s].mid_price,
                                  positions[s].current_sl_price)
                            => /\ s \notin DOMAIN positions'
                               /\ \E i \in 1..Len(reports') :
                                     /\ reports'[i].event = "stop_loss"
                                     /\ reports'[i].symbol = s]_vars

\* A snapshot during which the gateway raised for a retested intent, which is
\* now REJECTED, and a position at its stop was closed all the same.
C13_Witness ==
    /\ last.op = "on_market_snapshot"
    /\ last.reply = Some("raise")
    /\ "BTCUSDT" \in DOMAIN last.market
    /\ \E id \in entry_intents :
          /\ intents[id].status = REJECTED
          /\ intents[id].entry_type = "limit_on_retest"
          /\ now < intents[id].created_at + intents[id].ttl_seconds
    /\ \E i \in 1..Len(reports) : reports[i].event = "stop_loss"

\* C15: a CANCELLED order update for a live intent of size S with filled
\* quantity f: when f > 0 the reports are ENTRY_FILLED with quantity f, then
\* ENTRY_CANCELLED with quantity S - f, and the symbol's position has size f;
\* when f = 0 the only report is ENTRY_CANCELLED with quantity S and the
\* position map is unchanged; either way the intent leaves the live map.
C15_CancelledUpdate ==
    [][(/\ last'.op = "handle_order_update"
        /\ ~IsNone(last'.order)
        /\ active_orders[last'.order[1].order_id].status \in {ORDER_NEW, PARTIALLY_FILLED}
        /\ last'.order[1].status = CANCELLED
        /\ last'.order[1].intent_id \in entry_intents)
          => LET order == last'.order[1]
                 S == intents[order.intent_id].size
                 f == order.filled_qty
             IN /\ order.intent_id \notin entry_intents'
                /\ f > 0 =>
                      /\ Len(reports') = 2
                      /\ reports'[1].event = "entry_filled" /\ reports'[1].quantity = f
                      /\ reports'[2].event = "entry_cancelled"
                      /\ reports'[2].quantity = S - f
                      /\ order.symbol \in DOMAIN positions'
                      /\ positions'[order.symbol].size = f
                /\ f = 0 =>
                      /\ Len(reports') = 1
                      /\ reports'[1].event = "entry_cancelled" /\ reports'[1].quantity = S
                      /\ positions' = positions]_vars

\* An order cancelled after a partial fill: both reports, a position of the
\* filled quantity, the intent gone from the live map.
C15_Witness ==
    /\ last.op = "handle_order_update"
    /\ ~IsNone(last.order)
    /\ last.order[1].status = CANCELLED /\ last.order[1].filled_qty > 0
    /\ Len(reports) = 2
    /\ last.order[1].symbol \in DOMAIN positions
    /\ positions[last.order[1].symbol].size = last.order[1].filled_qty
    /\ last.order[1].intent_id \notin entry_intents

--------------------------------------------------------------------------
(* The exit side: positions opened through the pipeline with the paper      *)
(* gateway of main.py, then supervised by on_market_snapshot with both      *)
(* callbacks wired (wire_engines)                                           *)

MaxExitIntents == 2

\* Cycle times: the first minutes of day 0 and the first cycle of day 1.
ExitTimes == {0, 300, SecondsPerDay}

ExitSymbols == {"BTCUSDT"}

\* A long market entry with a one-bar time stop, a long limit_on_retest entry
\* trailed at 5%, a short market entry with a one-bar time stop.
ExitSignals ==
    {[Signal("BTCUSDT", LONG, STRATEGY_A, 100, Some(95)) EXCEPT !.time_stop_bars = Some(1)],
     [Signal("BTCUSDT", LONG, STRATEGY_B, 100, Some(95)) EXCEPT
        !.metadata.entry_execution = Some("limit_on_retest"),
        !.trailing_mode = Some("percent"), !.trailing_params.trail_percent = Some(5)],
     [Signal("BTCUSDT", SHORT, STRATEGY_C, 100, Some(105)) EXCEPT !.time_stop_bars = Some(1)]}

\* The market state of an entry cycle: the price away from a long retest.
ExitPipelineMarket == [s \in ExitSymbols |-> Market(105, 2, 4000000)]

\* Snapshot prices: 2R and 1R below the entry of 100, the entry, 1R and 2R above.
ExitPrices == {90, 95, 100, 105, 110}
ExitSnapshots ==
    {[s \in ExitSymbols |-> Market(p, 2, 4000000)] : p \in ExitPrices}

\* PaperOrderGateway.submit_order: every order comes back FILLED.
PaperReply == FILLED

\* History of the exit runs: the realized PnL of every close since the start of
\* the RiskEngine's session, and per symbol how often each take-profit rung
\* fired on the PositionState now (or last) in the map.
NoExitHist == [closed |-> 0, tp1 |-> [s \in ExitSymbols |-> 0],
               tp2 |-> [s \in ExitSymbols |-> 0]]

ExitEvents == {"take_profit", "stop_loss", "time_stop"}
IsExit(r) == r.event \in ExitEvents

\* The realized PnL of the close a report tells of, by the formula of the
\* specification, the entry price taken from the position book.
ClosePnl(r, book) ==
    (r.price - book[r.symbol].entry_price) * r.quantity * (IF r.side = LONG THEN 1 ELSE 0 - 1)
ClosePnls(rs, book) ==
    LET x == SelectSeq(rs, IsExit) IN [i \in 1..Len(x) |-> ClosePnl(x[i], book)]

RECURSIVE SumSeq(_)
SumSeq(q) == IF q = <<>> THEN 0 ELSE Head(q) + SumSeq(Tail(q))

NonZero(x) == x # 0
Fired(rs, s, rung) ==
    Cardinality({i \in 1..Len(rs) : rs[i].symbol = s /\ rs[i].reason = Some(rung)})

\* The symbols whose PositionState in `after` is another object than in `before`.
Created(before, after) ==
    {s \in DOMAIN after : s \notin DOMAIN before \/ after[s] # before[s]}

InitExit ==
    /\ runtime = NoRuntime
    /\ RiskConstructed(EngineLimits(2))
    /\ ExecConstructed(EmptyMap)
    /\ last = NoCall
    /\ hist = NoExitHist

\* run_signal_pipeline(signals, risk_engine, execution_engine, market_state, now=now)
\* with one signal and the paper gateway.
RunExitPipeline ==
    \E signal \in ExitSignals :
      LET ds == assess_signals(<<signal>>, positions, ExitPipelineMarket, now, daily_state,
                               cooldown_until, limits)
          r == roll_session(daily_state, cooldown_until, now)
          e0 == [EngineState EXCEPT !.daily_state = r.daily_state,
                                    !.cooldown_until = r.cooldown_until]
          e == handle_decisions(e0, ds, ExitPipelineMarket, PaperReply, now)
          fresh == Created(positions, e.positions)
      IN /\ Cardinality(DOMAIN e.intents) <= MaxExitIntents
         /\ Becomes(e)
         /\ decisions' = ds
         /\ reports' = <<>>
         /\ last' = [NoCall EXCEPT !.op = "run_signal_pipeline", !.t = now]
         /\ hist' = [closed |-> IF SessionKey(now) # daily_state.session_date
                                THEN 0 ELSE hist.closed,
                     tp1 |-> [s \in ExitSymbols |-> IF s \in fresh THEN 0 ELSE hist.tp1[s]],
                     tp2 |-> [s \in ExitSymbols |-> IF s \in fresh THEN 0 ELSE hist.tp2[s]]]
         /\ UNCHANGED <<runtime, now, limits>>

\* ExecutionEngine.on_market_snapshot(market_state, now).  last keeps the
\* position book the exit loop went over (the map after the limit retests),
\* the snapshot, and the amounts handed to the PnL callback.
SnapshotExit ==
    \E market \in ExitSnapshots :
      LET book == activate_limit_retests([EngineState EXCEPT !.ret = <<>>], 1, market,
                                         PaperReply, now).positions
          e == on_market_snapshot(EngineState, market, PaperReply, now)
          pnls == ClosePnls(e.ret, book)
          rolled == /\ SessionKey(now) # daily_state.session_date
                    /\ SelectSeq(pnls, NonZero) # <<>>
          fresh == Created(positions, book)
      IN /\ Becomes(e)
         /\ reports' = e.ret
         /\ decisions' = <<>>
         /\ last' = [NoCall EXCEPT !.op = "on_market_snapshot", !.t = now,
                                   !.market = market, !.open_positions = book,
                                   !.pnl_calls = e.pnl_calls]
         /\ hist' = [closed |-> (IF rolled THEN 0 ELSE hist.closed) + SumSeq(pnls),
                     tp1 |-> [s \in ExitSymbols |->
                                (IF s \in fresh THEN 0 ELSE hist.tp1[s]) + Fired(e.ret, s, "tp1")],
                     tp2 |-> [s \in ExitSymbols |->
                                (IF s \in fresh THEN 0 ELSE hist.tp2[s]) + Fired(e.ret, s, "tp2")]]
         /\ UNCHANGED <<runtime, now, limits>>

\* The main loop sleeps until a later cycle.
TickExit ==
    /\ \E t \in ExitTimes : t > now /\ now' = t
    /\ UNCHANGED <<runtime, riskVars, execVars, last, hist>>

NextExit == TickExit \/ RunExitPipeline \/ SnapshotExit

SpecExit == InitExit /\ [][NextExit]_vars

\* The exit reports of the last call about one symbol, in order, and the
\* quantity closed by those before the i-th.
ExitsOf(s) == LET about(r) == IsExit(r) /\ r.symbol = s IN SelectSeq(reports, about)
ClosedBefore(x, i) == SumSeq([k \in 1..(i - 1) |-> x[k].quantity])
ExitRank(r) ==
    IF r.event = "take_profit" THEN (IF r.reason = Some("tp1") THEN 1 ELSE 2)
    ELSE IF r.event = "stop_loss" THEN 3 ELSE 4

\* C16: within one on_market_snapshot cycle the exit reports of a position
\* come in the order TP1, TP2, stop-loss, time-stop; a hit stop closes all of
\* the remaining size and ends the checks, so STOP_LOSS and TIME_STOP never
\* come together and no exit report of the position follows its STOP_LOSS.
C16_ExitOrder ==
    last.op = "on_market_snapshot" =>
       \A s \in DOMAIN last.open_positions \cap DOMAIN last.market :
          LET x == ExitsOf(s)
              pos == apply_trailing_stop(last.open_positions[s], last.market[s])
          IN /\ \A i, j \in 1..Len(x) : i < j => ExitRank(x[i]) < ExitRank(x[j])
             /\ ~\E i, j \in 1..Len(x) : x[i].event = "stop_loss" /\ x[j].event = "time_stop"
             /\ hit_stop(pos.side, last.market[s].mid_price, pos.current_sl_price)
                   => \E i \in 1..Len(x) : x[i].event = "stop_loss"
             /\ \A i \in 1..Len(x) :
                   x[i].event = "stop_loss"
                      => /\ i = Len(x)
                         /\ x[i].quantity = last.open_positions[s].size - ClosedBefore(x, i)
                         /\ s \notin DOMAIN positions

\* A cycle in which a position was at its stop with its time-stop deadline
\* elapsed: it was closed by the stop and no TIME_STOP report was made.
C16_Witness ==
    /\ last.op = "on_market_snapshot"
    /\ \E s \in DOMAIN last.open_positions \cap DOMAIN last.market :
          /\ ~IsNone(last.open_positions[s].time_stop_at)
          /\ last.t >= last.open_positions[s].time_stop_at[1]
          /\ hit_stop(last.open_positions[s].side, last.market[s].mid_price,
                      last.open_positions[s].current_sl_price)
          /\ Len(ExitsOf(s)) = 1
          /\ ExitsOf(s)[1].event = "stop_loss"

\* C17 (as claimed): when the snapshot price touches the current stop of a
\* position, or its time-stop deadline has elapsed, on_market_snapshot closes
\* all of its remaining size in that cycle (the closed quantities add up to the
\* size, the last close being a STOP_LOSS or TIME_STOP) and the symbol is out
\* of the position map when the call returns.
C17_StopsCloseEverything ==
    [][(last'.op = "on_market_snapshot" /\ now' = now) =>
          \A s \in DOMAIN positions \cap DOMAIN last'.market :
             (\/ hit_stop(positions[s].side, last'.market[s].mid_price,
                          positions[s].current_sl_price)
              \/ /\ ~IsNone(positions[s].time_stop_at)
                 /\ now >= positions[s].time_stop_at[1])
                => LET x == SelectSeq(reports', LAMBDA r : IsExit(r) /\ r.symbol = s)
                   IN /\ s \notin DOMAIN positions'
                      /\ x # <<>>
                      /\ x[Len(x)].event \in {"stop_loss", "time_stop"}
                      /\ SumSeq([k \in 1..Len(x) |-> x[k].quantity]) = positions[s].size]_vars

\* C18: TP1 closes half of the position's size and TP2 a quarter of the size
\* remaining when it fires (of size 1: 0.5, then 0.125), and after TP2 the
\* other three quarters of that remainder (0.375) stay in the position map.
C18_LadderQuantities ==
    last.op = "on_market_snapshot" =>
       \A s \in DOMAIN last.open_positions :
          LET x == ExitsOf(s)
              remaining(i) == last.open_positions[s].size - ClosedBefore(x, i)
          IN \A i \in 1..Len(x) :
                /\ x[i].reason = Some("tp1") => 2 * x[i].quantity = remaining(i)
                /\ x[i].reason = Some("tp2") =>
                      /\ 4 * x[i].quantity = remaining(i)
                      /\ i = Len(x) => /\ s \in DOMAIN positions
                                       /\ positions[s].size = 3 * x[i].quantity
                                       /\ positions[s].tp_state.tp2

\* Both rungs have fired on a position of 20 units, the second in the last
\* cycle closing 2.5 units: 7.5 units are left in the map.
C18_Witness ==
    /\ last.op = "on_market_snapshot"
    /\ "BTCUSDT" \in DOMAIN positions
    /\ positions["BTCUSDT"].size = 7500
    /\ hist.tp1["BTCUSDT"] = 1 /\ hist.tp2["BTCUSDT"] = 1
    /\ \E i \in 1..Len(reports) :
          reports[i].reason = Some("tp2") /\ reports[i].quantity = 2500

\* C19: over the life of a position each take-profit rung fires at most once,
\* and TP2 never fires before TP1.
C19_RungsFireOnce ==
    \A s \in ExitSymbols :
       /\ hist.tp1[s] <= 1
       /\ hist.tp2[s] <= 1
       /\ hist.tp2[s] <= hist.tp1[s]
       /\ \A i, j \in 1..Len(reports) :
             (/\ reports[i].symbol = s /\ reports[i].reason = Some("tp1")
              /\ reports[j].symbol = s /\ reports[j].reason = Some("tp2")) => i < j

\* A cycle whose price is at or beyond the first target of a position whose
\* first rung had fired before: the rung did not fire again.
C19_Witness ==
    /\ last.op = "on_market_snapshot"
    /\ \E s \in DOMAIN last.open_positions \cap DOMAIN last.market :
          LET pos == last.open_positions[s]
          IN /\ pos.tp_state.tp1
             /\ hit_target(pos.side, last.market[s].mid_price,
                           tp_prices(pos, Abs(pos.entry_price - pos.initial_sl_price))[1])
             /\ Fired(reports, s, "tp1") = 0
             /\ hist.tp1[s] = 1

\* C20 (as claimed): every close hands its realized PnL,
\* (exit - entry) * qty * (+1 long, -1 short), to the PnL callback.
C20_EveryClosePassesPnl ==
    last.op = "on_market_snapshot" =>
       last.pnl_calls = ClosePnls(reports, last.open_positions)

\* C20 (amended): every close adds (exit - entry) * qty * (+1 long, -1 short)
\* to the position's realized PnL and, when that amount is not zero, hands it
\* to the PnL callback; the RiskEngine's daily realized PnL is the sum of the
\* realized PnL of all closes since its session started, and a losing close
\* arms the cooldown.
C20_ClosePnlFeedsRisk ==
    /\ daily_state.realized_pnl = hist.closed
    /\ last.op = "on_market_snapshot" =>
          LET pnls == ClosePnls(reports, last.open_positions)
          IN /\ last.pnl_calls = SelectSeq(pnls, NonZero)
             /\ \A s \in DOMAIN positions \cap DOMAIN last.open_positions :
                   positions[s].realized_pnl =
                      last.open_positions[s].realized_pnl
                      + SumSeq(ClosePnls(ExitsOf(s), last.open_positions))
             /\ (\E i \in 1..Len(pnls) : pnls[i] < 0)
                   => cooldown_until = Some(last.t + 60 * limits.cooldown_after_loss_min)

\* A cycle with a winning partial close and then a losing one on the books:
\* the daily PnL is their sum and the cooldown is armed.
C20_Witness ==
    /\ last.op = "on_market_snapshot"
    /\ \E i \in 1..Len(reports) :
          /\ IsExit(reports[i])
          /\ ClosePnl(reports[i], last.open_positions) < 0
    /\ hist.closed > 0
    /\ daily_state.realized_pnl = hist.closed
    /\ ~IsNone(cooldown_until)

--------------------------------------------------------------------------
(* assess_signals over signals that reach every check of _build_decision    *)

STRATEGY_D == "strategy_d_vwap_mean_reversion"

\* Signals per symbol: BTC from four strategies (two of them without a
\* configured priority); ETH sized from risk (above its 500 cap) and with an
\* explicit target notional; SOL without a stop, with entry = stop, with a
\* risk override of 0% and with a negative target notional.
DecideSignals ==
    {Signal("BTCUSDT", LONG, STRATEGY_A, 100, Some(95)),
     Signal("BTCUSDT", SHORT, STRATEGY_B, 100, Some(105)),
     Signal("BTCUSDT", LONG, STRATEGY_C, 100, Some(90)),
     Signal("BTCUSDT", SHORT, STRATEGY_D, 100, Some(110)),
     Signal("ETHUSDT", LONG, STRATEGY_A, 100, Some(95)),
     [Signal("ETHUSDT", SHORT, STRATEGY_B, 100, Some(105)) EXCEPT
        !.target_notional = Some(Usd(300))],
     Signal("SOLUSDT", LONG, STRATEGY_A, 100, None),
     Signal("SOLUSDT", SHORT, STRATEGY_B, 100, Some(100)),
     [Signal("SOLUSDT", LONG, STRATEGY_C, 100, Some(95)) EXCEPT !.target_risk_pct = Some(0)],
     [Signal("SOLUSDT", SHORT, STRATEGY_D, 100, Some(105)) EXCEPT
        !.target_notional = Some(0 - Usd(100))]}

\* The RiskEngine states of AssessStates, and breaker and cooldown together.
DecideStates ==
    AssessStates \cup {[realized_pnl |-> Usd(0 - 1000), cooldown_until |-> Some(1800)]}

DecideOpenPositions == {EmptyMap, [s \in {"ETHUSDT"} |-> HeldPosition(s, Qty(1))]}

InitDecide ==
    /\ runtime = NoRuntime
    /\ \E n \in 0..2, st \in DecideStates, t \in {0, 1800},
          signals \in SignalLists(DecideSignals), open \in DecideOpenPositions,
          market \in RiskMarkets :
         /\ now = t
         /\ limits = SampleLimits(n)
         /\ daily_state = [session_date |-> SessionKey(0), realized_pnl |-> st.realized_pnl]
         /\ cooldown_until = st.cooldown_until
         /\ decisions = <<>>
         /\ last = [NoCall EXCEPT !.op = "input", !.t = t, !.signals = signals,
                               !.open_positions = open, !.market = market]
    /\ ExecConstructed(EmptyMap)
    /\ hist = NoHist

NextDecide == Assess

SpecDecide == InitDecide /\ [][NextDecide]_vars

\* The symbols of the signals handed in, and for a symbol the signal the
\* specification lets win: smallest priority value, first in input order.
InputSymbols == {last.signals[i].symbol : i \in 1..Len(last.signals)}
Winner(symbol) ==
    LET of == {i \in 1..Len(last.signals) : last.signals[i].symbol = symbol}
        prio(i) == StrategyPriority(last.signals[i].strategy_id)
        best == CHOOSE i \in of :
                   \A j \in of : prio(i) < prio(j) \/ (prio(i) = prio(j) /\ i <= j)
    IN last.signals[best]

\* C21: assess_signals returns exactly one decision for each symbol of the
\* input signals and none for other symbols; the decision is built from the
\* symbol's signal of smallest priority value (10000 without a configured
\* priority), the first in input order among equal priorities.
C21_OneDecisionPerSymbol ==
    last.op = "assess_signals" =>
       /\ \A i \in 1..Len(decisions) : decisions[i].symbol \in InputSymbols
       /\ \A symbol \in InputSymbols :
             /\ Cardinality({i \in 1..Len(decisions) : decisions[i].symbol = symbol}) = 1
             /\ \A i \in 1..Len(decisions) :
                   decisions[i].symbol = symbol =>
                      /\ decisions[i].signal = Winner(symbol)
                      /\ decisions[i].strategy_id = Winner(symbol).strategy_id
                      /\ decisions[i].side = Winner(symbol).side

\* Two signals of one symbol from strategies without a configured priority:
\* the one decision is built from the first.
C21_Witness ==
    /\ last.op = "assess_signals"
    /\ Len(last.signals) = 2
    /\ last.signals[1].symbol = last.signals[2].symbol
    /\ last.signals[1] # last.signals[2]
    /\ StrategyPriority(last.signals[1].strategy_id) = 10000
    /\ StrategyPriority(last.signals[2].strategy_id) = 10000
    /\ Len(decisions) = 1
    /\ decisions[1].signal = last.signals[1]

\* C22 (as claimed): assess_signals returns as many decisions as it was given
\* signals; a signal dropped by conflict resolution comes back as a rejected
\* decision with reason conflict_pruned.
C22_EverySignalDecided ==
    last.op = "assess_signals" =>
       /\ Len(decisions) = Len(last.signals)
       /\ \A i \in 1..Len(last.signals) :
             last.signals[i] # Winner(last.signals[i].symbol) =>
                \E j \in 1..Len(decisions) :
                   /\ decisions[j].signal = last.signals[i]
                   /\ ~decisions[j].approved
                   /\ decisions[j].reason = Some("conflict_pruned")

\* The largest notional the limits allow for a symbol.
NotionalCap(symbol) ==
    LET base == limits.virtual_equity_usdt * limits.max_leverage
        cap == limits.symbol_max_notional_usdt[symbol]
    IN IF cap # 0 /\ cap < base THEN cap ELSE base

\* C23: a decision returned by assess_signals has a rejection reason exactly
\* when it is not approved; a rejected decision has no size and no notional;
\* an approved decision has size > 0 and
\* 0 < notional <= min(equity * max_leverage, the symbol's cap if configured).
C23_DecisionShape ==
    last.op = "assess_signals" =>
       \A i \in 1..Len(decisions) :
          LET d == decisions[i]
          IN /\ IsNone(d.reason) <=> d.approved
             /\ ~d.approved => IsNone(d.size) /\ IsNone(d.notional)
             /\ d.approved => /\ ~IsNone(d.size) /\ d.size[1] > 0
                              /\ ~IsNone(d.notional) /\ d.notional[1] > 0
                              /\ d.notional[1] <= NotionalCap(d.symbol)

\* One call returning an approved decision clamped to its symbol's cap and a
\* rejected one.
C23_Witness ==
    /\ last.op = "assess_signals"
    /\ \E i, j \in 1..Len(decisions) :
          /\ decisions[i].approved
          /\ decisions[i].notional = Some(NotionalCap(decisions[i].symbol))
          /\ ~decisions[j].approved
          /\ decisions[j].reason = Some("zero_sl_distance")

\* The risk amount of a signal: risk % (the signal's override or the limits')
\* of the equity (the signal's override or the limits'), % in whole percent.
RiskAmountOf(sig) ==
    LET pct == IF IsNone(sig.target_risk_pct) THEN limits.per_trade_risk_pct
               ELSE sig.target_risk_pct[1]
        equity == IF IsNone(sig.metadata.virtual_equity) THEN limits.virtual_equity_usdt
                  ELSE sig.metadata.virtual_equity[1]
    IN (pct * equity) \div 100

\* C24: an approved decision for a signal with a stop and no explicit target
\* notional has notional = min(risk_amount / |entry - stop| * entry,
\* equity * max_leverage, the symbol's cap if configured) and
\* size = notional / entry; a notional above the cap is clamped, not rejected.
C24_SizingFormula ==
    last.op = "assess_signals" =>
       \A i \in 1..Len(decisions) :
          LET d == decisions[i]
              sig == d.signal
              distance == Abs(sig.entry_price - sig.sl_price[1])
              raw == (RiskAmountOf(sig) \div distance) * sig.entry_price
          IN (d.approved /\ IsNone(sig.target_notional))
                => /\ d.notional = Some(Min(raw, NotionalCap(d.symbol)))
                   /\ d.size[1] * sig.entry_price = d.notional[1]
                   /\ d.risk_amount = RiskAmountOf(sig)

\* Equity 10,000, risk 1%, entry 100: with stop 95 and no symbol cap the size
\* is 20 and the notional 2,000; with the 500 cap of ETHUSDT the notional is 500.
C24_Witness ==
    /\ last.op = "assess_signals"
    /\ Len(decisions) = 2
    /\ \E i, j \in 1..2 :
          /\ decisions[i].symbol = "BTCUSDT" /\ decisions[i].approved
          /\ decisions[i].size = Some(Qty(20)) /\ decisions[i].notional = Some(Usd(2000))
          /\ decisions[j].symbol = "ETHUSDT" /\ decisions[j].approved
          /\ IsNone(decisions[j].signal.target_notional)
          /\ decisions[j].notional = Some(Usd(500)) /\ decisions[j].size = Some(Qty(5))

\* The first failing check of a signal among those made before the slots are
\* counted, in the order of the specification; None when it passes them all.
FirstFailing(sig, mkt) ==
    LET ra == RiskAmountOf(sig)
        targeted == ~IsNone(sig.target_notional) /\ sig.target_notional[1] # 0
        distance == IF IsNone(sig.sl_price) THEN 0
                    ELSE Abs(sig.entry_price - sig.sl_price[1])
        raw == IF targeted THEN sig.target_notional[1]
               ELSE (ra \div distance) * sig.entry_price
        cap == IF IsNone(sig.metadata.max_slippage_bps) THEN limits.max_slippage_bps
               ELSE sig.metadata.max_slippage_bps
    IN IF daily_state.realized_pnl * 100
             <= 0 - limits.virtual_equity_usdt * limits.max_daily_loss_pct
       THEN Some("daily_loss_limit")
       ELSE IF ~IsNone(cooldown_until) /\ last.t < cooldown_until[1]
       THEN Some("cooldown_active")
       ELSE IF IsNone(sig.sl_price) THEN Some("missing_sl_price")
       ELSE IF ra <= 0 THEN Some("invalid_risk_amount")
       ELSE IF ~targeted /\ distance <= 0 THEN Some("zero_sl_distance")
       ELSE IF Min(raw, NotionalCap(sig.symbol)) <= 0 THEN Some("notional_underflow")
       ELSE IF /\ ~IsNone(cap) /\ cap[1] # 0 /\ ~IsNone(mkt)
               /\ (mkt[1].avg_slippage_bps > cap[1] \/ mkt[1].spread_bps > 2 * cap[1])
       THEN Some("slippage_filter")
       ELSE None

\* C25: the rejection reason of a decision is the first failing check in the
\* order daily_loss_limit, cooldown_active, missing_sl_price,
\* invalid_risk_amount, zero_sl_distance, notional_underflow, slippage_filter,
\* max_concurrent_positions_reached; with the breaker tripped and a cooldown
\* active the reason is daily_loss_limit.
C25_FirstFailingCheck ==
    last.op = "assess_signals" =>
       LET open == last.open_positions
           cap == limits.max_concurrent_positions
                  - Cardinality({s \in DOMAIN open : open[s].size # 0})
           slots == IF cap > 0 THEN cap ELSE 0
       IN \A i \in 1..Len(decisions) :
             LET d == decisions[i]
                 mkt == IF d.symbol \in DOMAIN last.market
                        THEN Some(last.market[d.symbol]) ELSE None
                 failing == FirstFailing(d.signal, mkt)
             IN IF ~IsNone(failing) THEN d.reason = failing
                ELSE IF NewSymbol(i) /\ Cardinality(ApprovedNew(i - 1)) >= slots
                THEN d.reason = Some("max_concurrent_positions_reached")
                ELSE d.approved

\* A signal assessed with the breaker tripped while a cooldown is active.
C25_Witness ==
    /\ last.op = "assess_signals"
    /\ ~IsNone(cooldown_until) /\ last.t < cooldown_until[1]
    /\ daily_state.realized_pnl <= 0 - Usd(1000)
    /\ Len(decisions) >= 1
    /\ decisions[1].reason = Some("daily_loss_limit")

--------------------------------------------------------------------------
(* Order submission: market entries under the slippage cap and limit        *)
(* entries waiting for their retest, ExecutionEngine called directly         *)

\* Signals behind the decisions: a market entry, an entry of an unknown mode
\* and a market entry with its own slippage cap of 21 bps; limit_on_retest
\* entries long and short.
SubmitSignals ==
    {Signal("BTCUSDT", LONG, STRATEGY_A, 100, Some(95)),
     [Signal("BTCUSDT", SHORT, STRATEGY_B, 100, Some(105)) EXCEPT
        !.metadata.entry_execution = Some("twap")],
     [Signal("BTCUSDT", LONG, STRATEGY_A, 100, Some(95)) EXCEPT
        !.metadata.max_slippage_bps = Some(21)]}
RetestSignals ==
    {[Signal("BTCUSDT", LONG, STRATEGY_B, 100, Some(95)) EXCEPT
        !.metadata.entry_execution = Some("limit_on_retest")],
     [Signal("BTCUSDT", SHORT, STRATEGY_C, 100, Some(105)) EXCEPT
        !.metadata.entry_execution = Some("limit_on_retest")]}

\* The approved decisions the RiskEngine builds for them (20 units at 100).
DecisionsFor(signals) ==
    {assess_signals(<<s>>, EmptyMap, [x \in EngineSymbols |-> Market(100, 2, 4000000)], 0,
                    [session_date |-> 0, realized_pnl |-> 0], None, EngineLimits(2))[1] :
        s \in signals}
SubmitDecisions == DecisionsFor(SubmitSignals)
RetestDecisions == DecisionsFor(RetestSignals)

\* The market state handed over with a market decision: none; a deep book
\* (expected slippage 6 bps); a book of 1,000,000 (21 bps); a wide spread
\* (20 bps).  With a limit decision: none; at, below and above the entry price.
SubmitMarkets ==
    {None, Some(Market(100, 2, 4000000)), Some(Market(100, 2, 1000000)),
     Some(Market(100, 30, 4000000))}
RetestMarkets ==
    {None, Some(Market(100, 2, 4000000)), Some(Market(95, 2, 4000000)),
     Some(Market(105, 2, 4000000))}

\* Snapshots of a cycle: the symbol below or above the entry price, or
\* without data for the symbol.
SubmitSnapshots ==
    {[s \in {"BTCUSDT"} |-> Market(p, 2, 4000000)] : p \in {95, 105}}
      \cup {[s \in {"ETHUSDT"} |-> Market(100, 2, 4000000)]}

\* ExecutionEngine.handle_risk_decision(decision, mkt, now), with the call's
\* arguments and the orders handed to the gateway recorded.
HandleDecisionOf(ds, mkts) ==
    \E decision \in ds, mkt \in mkts, reply \in GatewayReplies :
      LET e == handle_risk_decision(EngineState, decision, mkt, reply, now)
      IN /\ Cardinality(DOMAIN e.intents) <= MaxIntents
         /\ e.submitted <= MaxOrders
         /\ Becomes(e)
         /\ reports' = <<>>
         /\ decisions' = <<>>
         /\ last' = [NoCall EXCEPT !.op = "handle_risk_decision", !.reply = Some(reply),
                                   !.decision = Some(decision), !.mkt = mkt,
                                   !.sent = e.sent]
         /\ UNCHANGED <<runtime, now, limits, hist>>

\* ExecutionEngine.on_market_snapshot(market_state, now), likewise.
SnapshotSubmit ==
    \E market \in SubmitSnapshots, reply \in GatewayReplies :
      LET e == on_market_snapshot(EngineState, market, reply, now)
      IN /\ e.submitted <= MaxOrders
         /\ Becomes(e)
         /\ reports' = e.ret
         /\ decisions' = <<>>
         /\ last' = [NoCall EXCEPT !.op = "on_market_snapshot", !.market = market,
                                   !.reply = Some(reply), !.sent = e.sent]
         /\ UNCHANGED <<runtime, now, limits, hist>>

SubmitDecision == HandleDecisionOf(SubmitDecisions, SubmitMarkets)
RetestDecision == HandleDecisionOf(RetestDecisions, RetestMarkets)

NextSubmit == Tick \/ SubmitDecision \/ SnapshotSubmit
NextRetest == Tick \/ RetestDecision \/ SnapshotSubmit

SpecSubmit == Init /\ [][NextSubmit]_vars
SpecRetest == Init /\ [][NextRetest]_vars

\* The orders of a list that carry the given intent id.
OrdersFor(sent, id) == SelectSeq(sent, LAMBDA o : o.client_order_id = id)

\* The slippage cap that applies to a decision: its own or the limits', if any.
ApplicableCap(decision) ==
    IF ~IsNone(decision.metadata.max_slippage_bps) THEN decision.metadata.max_slippage_bps
    ELSE limits.max_slippage_bps

\* spread_bps * 0.5 + (notional / depth) * 10000 > cap for `units` units at
\* `price`, both sides multiplied by 2 * depth; no estimate without market data.
EstimateExceeds(units, price, mkt, cap) ==
    /\ ~IsNone(mkt)
    /\ mkt[1].spread_bps * mkt[1].depth_pm1_usd + 2 * units * price * 10000
          > 2 * cap * mkt[1].depth_pm1_usd

\* C26: handle_risk_decision for a decision of any entry mode other than
\* limit_on_retest: when the estimated slippage
\* spread_bps * 0.5 + (notional / depth) * 10000 exceeds the applicable cap the
\* intent is REJECTED and no order goes to the gateway; otherwise exactly one
\* order goes to the gateway, a fill-or-kill market order of the intent's size.
C26_SlippageCapOnMarketEntries ==
    [][(now' = now /\ last'.op = "handle_risk_decision" /\ ~IsNone(last'.decision)
        /\ last'.decision[1].entry_type # "limit_on_retest")
          => LET decision == last'.decision[1]
                 id == Cardinality(DOMAIN intents) + 1
                 cap == ApplicableCap(decision)
                 exceeds == /\ ~IsNone(cap)
                            /\ EstimateExceeds(decision.size[1] \div 1000,
                                               decision.signal.entry_price,
                                               last'.mkt, cap[1])
             IN /\ id \in DOMAIN intents'
                /\ IF exceeds
                   THEN /\ intents'[id].status = REJECTED
                        /\ last'.sent = <<>>
                        /\ submitted' = submitted
                        /\ active_orders' = active_orders
                        /\ positions' = positions
                   ELSE /\ Len(last'.sent) = 1
                        /\ submitted' = submitted + 1
                        /\ last'.sent[1].client_order_id = id
                        /\ last'.sent[1].order_type = "market"
                        /\ last'.sent[1].time_in_force = "FOK"
                        /\ last'.sent[1].quantity = decision.size[1]
                        /\ last'.sent[1].symbol = decision.symbol
                        /\ last'.sent[1].side = decision.side]_vars

\* A market entry rejected for 21 bps against the 10 bps of the limits, and
\* the same book accepted under a cap of 21 bps.
C26_Witness ==
    /\ last.op = "handle_risk_decision"
    /\ last.mkt = Some(Market(100, 2, 1000000))
    /\ Cardinality(DOMAIN intents) = 2
    /\ intents[1].status = REJECTED /\ intents[1].entry_type = "market_with_cap"
    /\ submitted = 1
    /\ last.decision[1].metadata.max_slippage_bps = Some(21)
    /\ Len(last.sent) = 1 /\ last.sent[1].time_in_force = "FOK"

\* The live limit_on_retest intents that are PENDING and unexpired.
PendingRetests ==
    {id \in entry_intents :
        /\ intents[id].entry_type = "limit_on_retest"
        /\ intents[id].status = PENDING
        /\ now < intents[id].created_at + intents[id].ttl_seconds}

\* The price has retraced to or through the entry price.
Retraced(side, price, entry) == IF side = LONG THEN price <= entry ELSE price >= entry

\* What a limit_on_retest intent looks like after it was offered a price: one
\* post-only limit order at its entry price and the intent ACTIVE (then FILLED
\* at once, or REJECTED, as the gateway answers), or no order and PENDING.
RetestOutcome(id, side, entry, price, sent) ==
    IF Retraced(side, price, entry)
    THEN /\ Len(OrdersFor(sent, id)) = 1
         /\ OrdersFor(sent, id)[1].order_type = "limit"
         /\ OrdersFor(sent, id)[1].post_only
         /\ OrdersFor(sent, id)[1].price = Some(entry)
         /\ OrdersFor(sent, id)[1].quantity = intents'[id].size
         /\ intents'[id].status =
               (IF last'.reply = Some(ORDER_NEW) THEN ACTIVE
                ELSE IF last'.reply = Some(FILLED) THEN FILLED ELSE REJECTED)
         /\ last'.reply = Some(ORDER_NEW) => id \in entry_intents'
    ELSE /\ Len(OrdersFor(sent, id)) = 0
         /\ intents'[id].status = PENDING
         /\ id \in entry_intents'

\* C27: a PENDING, unexpired limit_on_retest intent has an order submitted
\* exactly when the price it is offered (the snapshot's, or the market state
\* handed over at creation) has retraced to or through its entry price (long:
\* price <= entry, short: price >= entry): then one post-only limit order at
\* the entry price is submitted and the intent becomes ACTIVE; otherwise
\* nothing is submitted for it and it stays PENDING in the live map.
C27_RetestSubmitsLimitOrder ==
    [][/\ (now' = now /\ last'.op = "on_market_snapshot") =>
             \A id \in PendingRetests :
                intents[id].symbol \in DOMAIN last'.market =>
                   RetestOutcome(id, intents[id].side, intents[id].entry_price,
                                 last'.market[intents[id].symbol].mid_price, last'.sent)
       /\ (now' = now /\ last'.op = "handle_risk_decision" /\ ~IsNone(last'.decision)
           /\ last'.decision[1].entry_type = "limit_on_retest")
             => LET id == Cardinality(DOMAIN intents) + 1
                    decision == last'.decision[1]
                IN /\ id \in DOMAIN intents'
                   /\ IF IsNone(last'.mkt)
                      THEN /\ OrdersFor(last'.sent, id) = <<>>
                           /\ intents'[id].status = PENDING /\ id \in entry_intents'
                      ELSE RetestOutcome(id, decision.side, decision.signal.entry_price,
                                         last'.mkt[1].mid_price, last'.sent)]_vars

\* A short intent left PENDING by a snapshot below its entry price, while a
\* long intent got its resting limit order in the same cycle.
C27_Witness ==
    /\ last.op = "on_market_snapshot"
    /\ last.reply = Some(ORDER_NEW)
    /\ \E i, j \in entry_intents :
          /\ intents[i].side = SHORT /\ intents[i].status = PENDING
          /\ intents[j].side = LONG /\ intents[j].status = ACTIVE
          /\ Len(OrdersFor(last.sent, j)) = 1 /\ OrdersFor(last.sent, j)[1].post_only
          /\ OrdersFor(last.sent, i) = <<>>

--------------------------------------------------------------------------
(* Updates for orders that are still working                                  *)

\* What the exchange may report for an order, its acknowledgement as NEW
\* included.
AllOrderUpdates(order) ==
    OrderUpdates(order)
      \cup {[order EXCEPT !.status = ORDER_NEW, !.filled_qty = 0, !.avg_fill_price = 0]}

\* ExecutionEngine.handle_order_update(order, now) for any of these reports.
HandleAnyOrderUpdate ==
    \E order_id \in DOMAIN active_orders :
      /\ active_orders[order_id].status \in {ORDER_NEW, PARTIALLY_FILLED}
      /\ \E order \in AllOrderUpdates(active_orders[order_id]) :
        LET e == handle_order_update(EngineState, order, now)
        IN /\ Becomes(e)
           /\ reports' = e.ret
           /\ last' = [NoCall EXCEPT !.op = "handle_order_update", !.order = Some(order)]
           /\ decisions' = <<>>
           /\ UNCHANGED <<runtime, now, limits, hist>>

NextUpdate == Tick \/ SubmitDecision \/ RetestDecision \/ HandleAnyOrderUpdate

SpecUpdate == Init /\ [][NextUpdate]_vars

\* C28: handle_order_update with a NEW or PARTIALLY_FILLED order of a live
\* intent returns no report, creates and changes no position, leaves the
\* intent in the live intent map with status ACTIVE and sets its filled_qty to
\* the reported quantity.
C28_WorkingOrderUpdate ==
    [][(/\ now' = now
        /\ last'.op = "handle_order_update"
        /\ last'.order[1].status \in {ORDER_NEW, PARTIALLY_FILLED}
        /\ last'.order[1].intent_id \in entry_intents)
          => LET order == last'.order[1]
                 id == order.intent_id
             IN /\ reports' = <<>>
                /\ positions' = positions
                /\ entry_intents' = entry_intents
                /\ intents'[id].status = ACTIVE
                /\ intents'[id].filled_qty = order.filled_qty
                /\ intents' = [intents EXCEPT ![id].status = ACTIVE,
                                              ![id].filled_qty = order.filled_qty]
                /\ active_orders'[order.order_id] = order
                /\ submitted' = submitted]_vars

\* A partial fill of 16 of 20 units reported for a live intent while a
\* position is held: the intent shows 16 filled, the position is as it was.
C28_Witness ==
    /\ last.op = "handle_order_update"
    /\ last.order[1].status = PARTIALLY_FILLED
    /\ last.order[1].intent_id \in entry_intents
    /\ intents[last.order[1].intent_id].filled_qty = Qty(16)
    /\ intents[last.order[1].intent_id].status = ACTIVE
    /\ reports = <<>>
    /\ DOMAIN positions # {}

--------------------------------------------------------------------------
(* Trailing stops inside the cycle: positions with trailing modes under       *)
(* market snapshots                                                            *)

\* Entries whose positions trail: a BTCUSDT long with a stop target of 102
\* plugged in by its strategy, a BTCUSDT short with one of 98, an ETHUSDT long
\* trailed at 5%.
TrailSignals ==
    {[Signal("BTCUSDT", LONG, STRATEGY_A, 100, Some(95)) EXCEPT
        !.trailing_mode = Some("structure"), !.trailing_params.dynamic_sl_price = Some(102)],
     [Signal("BTCUSDT", SHORT, STRATEGY_C, 100, Some(105)) EXCEPT
        !.trailing_mode = Some("structure"), !.trailing_params.dynamic_sl_price = Some(98)],
     [Signal("ETHUSDT", LONG, STRATEGY_B, 100, Some(95)) EXCEPT
        !.trailing_mode = Some("percent"), !.trailing_params.trail_percent = Some(5)]}
TrailDecisions == DecisionsFor(TrailSignals)

\* Snapshots of a cycle: any of the two symbols at the long stop, just above
\* the entry price, or at the second long target.
CyclePrices == {95, 101, 110}
TrailSnapshots ==
    UNION {[S -> {Market(p, 2, 4000000) : p \in CyclePrices}] :
             S \in (SUBSET {"BTCUSDT", "ETHUSDT"}) \ {{}}}

TrailDecision == HandleDecisionOf(TrailDecisions, {Some(Market(100, 2, 4000000))})

\* ExecutionEngine.on_market_snapshot(market_state, now), with the snapshot,
\* the positions held when it was called and the trailing callback's calls
\* recorded.  No limit_on_retest intent is live here, so the gateway is not
\* called.
SnapshotTrail ==
    \E market \in TrailSnapshots :
      LET e == on_market_snapshot(EngineState, market, PaperReply, now)
      IN /\ Becomes(e)
         /\ reports' = e.ret
         /\ decisions' = <<>>
         /\ last' = [NoCall EXCEPT !.op = "on_market_snapshot", !.market = market,
                                   !.open_positions = positions,
                                   !.trail_calls = e.trail_calls]
         /\ UNCHANGED <<runtime, now, limits, hist>>

NextCycle == Tick \/ TrailDecision \/ SnapshotTrail

SpecCycle == Init /\ [][NextCycle]_vars

\* How often the trailing callback was called for a symbol.
TrailCount(calls, s) == Cardinality({i \in 1..Len(calls) : calls[i] = s})

\* The reports of a list that close a symbol's position on its stop.
StopReports(rs, s) ==
    {i \in 1..Len(rs) : rs[i].symbol = s /\ rs[i].event = "stop_loss"}

\* C29: in an on_market_snapshot cycle the trailing updater is called exactly
\* once for every open position the snapshot has data for and not at all for
\* the others, before the position's exits are evaluated: the position is
\* stopped out in the cycle exactly when the price touches the stop as it is
\* after the cycle's trailing update, and a position that stays open carries
\* that stop.
C29_TrailBeforeExits ==
    last.op = "on_market_snapshot" =>
       \A s \in Symbols :
          IF s \in DOMAIN last.open_positions /\ s \in DOMAIN last.market
          THEN LET before == last.open_positions[s]
                   trailed == apply_trailing_stop(before, last.market[s]).current_sl_price
                   touched == IF before.side = LONG
                              THEN last.market[s].mid_price <= trailed
                              ELSE last.market[s].mid_price >= trailed
               IN /\ TrailCount(last.trail_calls, s) = 1
                  /\ touched <=> StopReports(reports, s) # {}
                  /\ touched => s \notin DOMAIN positions
                  /\ s \in DOMAIN positions => positions[s].current_sl_price = trailed
          ELSE TrailCount(last.trail_calls, s) = 0

\* A cycle at 101 in which the long position entered at 100 with stop 95 is
\* stopped out, its stop having been trailed to 102 in the same cycle, while
\* the other position stays open.
C29_Witness ==
    /\ last.op = "on_market_snapshot"
    /\ DOMAIN last.open_positions = {"BTCUSDT", "ETHUSDT"}
    /\ DOMAIN last.market = {"BTCUSDT", "ETHUSDT"}
    /\ last.open_positions["BTCUSDT"].side = LONG
    /\ last.open_positions["BTCUSDT"].current_sl_price = 95
    /\ last.market["BTCUSDT"].mid_price = 101
    /\ StopReports(reports, "BTCUSDT") # {}
    /\ DOMAIN positions = {"ETHUSDT"}
    /\ Len(last.trail_calls) = 2

--------------------------------------------------------------------------
(* The session roll with the engine's timezone away from UTC: the main loop   *)
(* passes datetime.now(tz=timezone.utc) to assess_signals, the execution       *)
(* engine passes datetime.utcnow() to the PnL callback, and RiskEngine is      *)
(* constructed with timezone Europe/Minsk (UTC+3)                              *)

\* The UTC offset of the engine's timezone, in seconds.
TzOffset == 10800

\* The calendar date in the engine's timezone of a UTC instant.
LocalDate(t) == (t + TzOffset) \div SecondsPerDay

\* UTC instants: 00:00 and 22:00 of day 0 (03:00 of local day 0, 01:00 of
\* local day 1), 00:00 and 22:00 of day 1.
RollTimes == {0, 79200, 86400, 165600}

\* RiskEngine.__init__ at instant t0: session_start is built from the date
\* fields of datetime.now(tz=self.tz).
RiskConstructedAt(lim, t0) ==
    /\ now = t0
    /\ limits = lim
    /\ daily_state = [session_date |-> LocalDate(t0), realized_pnl |-> 0]
    /\ cooldown_until = None
    /\ decisions = <<>>

InitRoll ==
    /\ runtime = NoRuntime
    /\ \E t0 \in {0, 79200} : RiskConstructedAt(SampleLimits(2), t0)
    /\ ExecConstructed(EmptyMap)
    /\ last = NoCall
    /\ hist = NoHist

\* The clock moves forward to a later instant.
AdvanceRoll ==
    /\ \E t \in RollTimes : t > now /\ now' = t
    /\ UNCHANGED <<runtime, riskVars, execVars, last, hist>>

NextRoll == AdvanceRoll \/ AssessSignals \/ RecordTradePnl

SpecRoll == InitRoll /\ [][NextRoll]_vars

\* C30 (as claimed): assess_signals and record_trade_pnl first roll the
\* session: when the calendar date of the given time in the engine's timezone
\* differs from the stored session date, the daily realized PnL restarts from 0
\* and the cooldown is cleared before the call does anything else (no decision
\* of the call is rejected for the old session's loss or cooldown); when the
\* date is the same, the roll leaves both as they were.
C30_RollOnLocalDate ==
    [][(now' = now /\ last'.op \in {"assess_signals", "record_trade_pnl"})
          => LET differs == LocalDate(now) # daily_state.session_date
                 pnl0 == IF differs THEN 0 ELSE daily_state.realized_pnl
                 cu0 == IF differs THEN None ELSE cooldown_until
             IN /\ daily_state'.realized_pnl = pnl0 + last'.pnl
                /\ last'.pnl >= 0 => cooldown_until' = cu0
                /\ differs =>
                      \A i \in 1..Len(decisions') :
                         decisions'[i].reason \notin
                            {Some("daily_loss_limit"), Some("cooldown_active")}]_vars

--------------------------------------------------------------------------
(* app/execution/sync_state.py: positions restored from the exchange          *)

MaxSnapshots == 2

\* A raw position snapshot: symbol, side as the exchange spells it, size as
\* sent (numeric text or not), entry price, optional stop; created_time 0.
RawSnapshot(symbol, side, size, entry_price, stop_loss) ==
    [symbol |-> symbol, side |-> side, size |-> size, entry_price |-> entry_price,
     stop_loss |-> stop_loss]
Num(x) == [numeric |-> TRUE, value |-> x]
NotANumber == [numeric |-> FALSE, value |-> 0]

\* float(x): the number, or nothing when float raises ValueError.
ParseFloat(raw) == IF raw.numeric THEN Some(raw.value) ELSE None

\* str.lower on the side spellings of the snapshots.
Lower(str) ==
    CASE str = "Long" -> "long"
      [] str = "LONG" -> "long"
      [] str = "Short" -> "short"
      [] str = "SHORT" -> "short"
      [] str = "Buy" -> "buy"
      [] str = "Sell" -> "sell"
      [] OTHER -> str

\* Side(str(side).lower()): the side, or nothing when the enum raises ValueError.
ParseSide(raw) == IF Lower(raw) \in Sides THEN Some(Lower(raw)) ELSE None

\* snapshot_to_position(snapshot): [raised, state], state being the
\* PositionState or nothing for a size of zero.
snapshot_to_position(snapshot) ==
    LET size == ParseFloat(snapshot.size)
        side == ParseSide(snapshot.side)
        sl_price == IF ~IsNone(snapshot.stop_loss) /\ snapshot.stop_loss[1] # 0
                    THEN snapshot.stop_loss[1] ELSE snapshot.entry_price
    IN IF IsNone(size) THEN [raised |-> TRUE, state |-> None]
       ELSE IF size[1] = 0 THEN [raised |-> FALSE, state |-> None]
       ELSE IF IsNone(side) THEN [raised |-> TRUE, state |-> None]
       ELSE [raised |-> FALSE,
             state |-> Some(Position(snapshot.symbol, side[1], size[1], snapshot.entry_price,
                                     sl_price, 0, Some("none"), NoParams, None))]

\* sync_state_from_exchange(client) for the list client.list_positions()
\* returns: [raised, positions]; an exception of snapshot_to_position ends it.
RECURSIVE sync_from(_, _)
sync_from(snapshots, acc) ==
    IF snapshots = <<>> THEN [raised |-> FALSE, positions |-> acc]
    ELSE LET r == snapshot_to_position(Head(snapshots))
         IN IF r.raised THEN [raised |-> TRUE, positions |-> acc]
            ELSE sync_from(Tail(snapshots),
                           IF IsNone(r.state) THEN acc
                           ELSE Put(acc, r.state[1].symbol, r.state[1]))
sync_state_from_exchange(snapshots) == sync_from(snapshots, EmptyMap)

\* hydrate_execution_engine(engine, client): engine.positions.update(synced);
\* when sync_state_from_exchange raises the engine is not touched.  A variant
\* that adds the exchange's size to a position the engine holds comes first.
hydrate_execution_engine_adding(engine_positions, snapshots) ==
    LET r == sync_state_from_exchange(snapshots)
    IN IF r.raised THEN [raised |-> TRUE, positions |-> engine_positions]
       ELSE [raised |-> FALSE,
             positions |-> [x \in DOMAIN engine_positions \cup DOMAIN r.positions |->
                              IF x \notin DOMAIN r.positions THEN engine_positions[x]
                              ELSE IF x \notin DOMAIN engine_positions THEN r.positions[x]
                              ELSE [r.positions[x] EXCEPT
                                      !.size = @ + engine_positions[x].size]]]

hydrate_execution_engine(engine_positions, snapshots) ==
    LET r == sync_state_from_exchange(snapshots)
    IN IF r.raised THEN [raised |-> TRUE, positions |-> engine_positions]
       ELSE [raised |-> FALSE,
             positions |-> [x \in DOMAIN engine_positions \cup DOMAIN r.positions |->
                              IF x \in DOMAIN r.positions THEN r.positions[x]
                              ELSE engine_positions[x]]]

\* What the exchange lists: BTCUSDT long, short (capitalised) and flat;
\* ETHUSDT short without a stop, with a side the Side enum does not know, and
\* with a size that is not a number.
ExchangeSnapshots ==
    {RawSnapshot("BTCUSDT", "long", Num(Qty(2)), 100, Some(95)),
     RawSnapshot("BTCUSDT", "Short", Num(Qty(1)), 105, Some(110)),
     RawSnapshot("BTCUSDT", "long", Num(0), 0, None),
     RawSnapshot("ETHUSDT", "short", Num(Qty(2)), 100, None),
     RawSnapshot("ETHUSDT", "Buy", Num(Qty(1)), 100, Some(95)),
     RawSnapshot("ETHUSDT", "short", NotANumber, 100, None)}

SnapshotLists == UNION {[1..n -> ExchangeSnapshots] : n \in 0..MaxSnapshots}

\* hydrate_execution_engine(engine, client) at process start or on a resync;
\* repeat records that the exchange listed the same as at the previous call.
Hydrate ==
    \E snapshots \in SnapshotLists :
      LET r == hydrate_execution_engine(positions, snapshots)
      IN /\ positions' = r.positions
         /\ last' = [NoCall EXCEPT !.op = "hydrate_execution_engine",
                                   !.snapshots = snapshots, !.raised = r.raised,
                                   !.open_positions = positions,
                                   !.repeat = (last.op = "hydrate_execution_engine"
                                               /\ last.snapshots = snapshots)]
         /\ UNCHANGED <<runtime, now, riskVars, intents, entry_intents, active_orders, submitted,
                        reports, hist>>

NextSync == Hydrate

SpecSync == Init /\ [][NextSync]_vars

\* The entries of a list that are well-formed (numeric size; a side the enum
\* knows unless the size is zero), and those of them with a size other than zero.
WellFormed(snapshot) ==
    /\ snapshot.size.numeric
    /\ snapshot.size.value # 0 => Lower(snapshot.side) \in {"long", "short"}
OpenEntries(snapshots) ==
    {i \in 1..Len(snapshots) : WellFormed(snapshots[i]) /\ snapshots[i].size.value # 0}

\* The position map holds entry i of the list (the last one listed for its
\* symbol): side, size and entry price are the exchange's.
Loaded(snapshots, i) ==
    LET symbol == snapshots[i].symbol
    IN /\ symbol \in DOMAIN positions
       /\ (\A j \in OpenEntries(snapshots) : snapshots[j].symbol = symbol => j <= i)
             => /\ positions[symbol].side = Lower(snapshots[i].side)
                /\ positions[symbol].size = snapshots[i].size.value
                /\ positions[symbol].entry_price = snapshots[i].entry_price

\* C31 (as claimed): after hydrate_execution_engine the symbols of the
\* engine's position map are exactly those of the exchange's entries with a
\* size other than zero, each with the exchange's side, size and entry price.
C31_MapReflectsExchange ==
    (last.op = "hydrate_execution_engine" /\ ~last.raised) =>
       /\ DOMAIN positions =
             {last.snapshots[i].symbol : i \in OpenEntries(last.snapshots)}
       /\ \A i \in OpenEntries(last.snapshots) : Loaded(last.snapshots, i)

\* C32: hydrate_execution_engine run again against the same exchange
\* snapshot leaves the position map as the first run left it.
C32_HydrateIdempotent ==
    (last.op = "hydrate_execution_engine" /\ last.repeat) =>
       positions = last.open_positions

\* A second run against a snapshot that lists an open position.
C32_Witness ==
    /\ last.op = "hydrate_execution_engine"
    /\ last.repeat /\ ~last.raised
    /\ OpenEntries(last.snapshots) # {}
    /\ "BTCUSDT" \in DOMAIN positions
    /\ positions["BTCUSDT"].size = Qty(1) /\ positions["BTCUSDT"].side = SHORT

\* C33 (as claimed): with a malformed entry in the exchange's list
\* hydrate_execution_engine raises nothing and every well-formed entry with a
\* size other than zero is in the position map afterwards.
C33_MalformedEntrySkipped ==
    last.op = "hydrate_execution_engine" =>
       /\ ~last.raised
       /\ \A i \in OpenEntries(last.snapshots) : Loaded(last.snapshots, i)

--------------------------------------------------------------------------
(* app/main.py: the trading loop and the Telegram thread                      *)

\* RuntimeState (app/runtime/state.py), the fields main() reads (last_command,
\* notes and the timestamps are written only).
RuntimeState(bot_running, per_trade_risk_pct, virtual_equity_usdt, max_concurrent_positions, daily_pnl_usdt) ==
    [bot_running |-> bot_running, per_trade_risk_pct |-> per_trade_risk_pct,
     virtual_equity_usdt |-> virtual_equity_usdt,
     max_concurrent_positions |-> max_concurrent_positions,
     daily_pnl_usdt |-> daily_pnl_usdt]

\* _load_runtime_state on a fresh runtime directory: RuntimeState() with the
\* risk controls of the configuration, saved; bot_running defaults to False.
LoadedRuntimeState(lim) ==
    RuntimeState(FALSE, lim.per_trade_risk_pct, lim.virtual_equity_usdt,
                 lim.max_concurrent_positions, 0)

\* _sync_limits(state, limits)
sync_limits(state, lim) ==
    [lim EXCEPT !.virtual_equity_usdt = state.virtual_equity_usdt,
                !.per_trade_risk_pct = state.per_trade_risk_pct,
                !.max_concurrent_positions = state.max_concurrent_positions]

\* RuntimeStateStore.update_state(**changes) on the stored state: load_state,
\* setattr for every change, save_state.
update_state(stored, changes) ==
    [k \in DOMAIN stored |-> IF k \in DOMAIN changes THEN changes[k] ELSE stored[k]]

\* TelegramBotInterface._update_state(**changes) as a whole: what it leaves in
\* runtime_state.json and in the RiskLimits object of the engines.  A variant
\* that writes the new risk controls through to the RiskLimits comes first.
telegram_update_state_live_limits(stored, lim, changes) ==
    [store |-> update_state(stored, changes),
     limits |-> sync_limits(update_state(stored, changes), lim)]

telegram_update_state(stored, lim, changes) ==
    [store |-> update_state(stored, changes), limits |-> lim]

\* The commands: /start_bot, /stop_bot, /set_risk, /set_equity,
\* /set_max_positions with values their handlers accept.
Change(key, value) == [k \in {key} |-> value]
Commands ==
    {Change("bot_running", TRUE), Change("bot_running", FALSE),
     Change("per_trade_risk_pct", 2), Change("virtual_equity_usdt", Usd(20000)),
     Change("max_concurrent_positions", 1)}

\* handle_realized_pnl(pnl, when) after risk_engine.record_trade_pnl, for the
\* amounts the PnL callback got during one engine call, in order: under the
\* lock, runtime_state.daily_pnl_usdt += pnl and runtime_state =
\* runtime_store.update_state(daily_pnl_usdt=runtime_state.daily_pnl_usdt).
RECURSIVE handle_realized_pnl(_, _)
handle_realized_pnl(rt, pnls) ==
    IF pnls = <<>> THEN rt
    ELSE LET daily == rt.state.daily_pnl_usdt + Head(pnls)
             saved == update_state(rt.store, [daily_pnl_usdt |-> daily])
         IN handle_realized_pnl([rt EXCEPT !.store = saved, !.state = saved], Tail(pnls))

\* `if runtime_state.bot_running:` of the loop; a variant that does not look
\* at the flag comes first.
entries_enabled_always(state) == TRUE

entries_enabled(state) == state.bot_running

\* main() up to the loop: the runtime state loaded, the engines wired, the
\* lock free, the Telegram thread polling.
RuntimeStarted(lim) ==
    [store |-> LoadedRuntimeState(lim), state |-> LoadedRuntimeState(lim),
     lock |-> "free", pc |-> "load", market_states |-> EmptyMap,
     telegram |-> [pc |-> "idle", changes |-> EmptyMap, loaded |-> None],
     pending |-> <<>>, loaded |-> None]

\* What the loop's specification remembers of the running cycle: the limits
\* _sync_limits left, whether on_market_snapshot ran, and how many signals
\* went to assess_signals and decisions to handle_risk_decision.
NoLoopHist(lim) == [synced |-> lim, snapshot |-> FALSE, assessed |-> 0, handled |-> 0]

LoopSignals ==
    <<Signal("BTCUSDT", LONG, STRATEGY_A, 100, Some(95)),
      Signal("ETHUSDT", LONG, STRATEGY_A, 100, Some(95))>>
LoopSignalLists == {SubSeq(LoopSignals, 1, n) : n \in 0..Len(LoopSignals)}

\* market_service.refresh(): nothing, or both symbols at the entry price or at
\* the long stop.
LoopMarkets ==
    {EmptyMap} \cup {[s \in {"BTCUSDT", "ETHUSDT"} |-> Market(p, 2, 4000000)] : p \in {95, 100}}

InitLoop ==
    /\ RiskConstructed(EngineLimits(2))
    /\ ExecConstructed(EmptyMap)
    /\ last = NoCall
    /\ hist = NoLoopHist(EngineLimits(2))
    /\ runtime = RuntimeStarted(EngineLimits(2))

\* A command handler of the Telegram thread: _update_state(**changes).
Command ==
    \E changes \in Commands :
      LET r == telegram_update_state(runtime.store, limits, changes)
      IN /\ runtime' = [runtime EXCEPT !.store = r.store]
         /\ limits' = r.limits
         /\ last' = [NoCall EXCEPT !.op = "telegram_update_state"]
         /\ UNCHANGED <<now, daily_state, cooldown_until, decisions, execVars, hist>>

\* Top of the loop: runtime_state = runtime_store.load_state();
\* _sync_limits(runtime_state, risk_limits).
LoadAndSync ==
    /\ runtime.pc = "load"
    /\ runtime' = [runtime EXCEPT !.state = runtime.store, !.pc = "refresh"]
    /\ limits' = sync_limits(runtime.store, limits)
    /\ hist' = NoLoopHist(sync_limits(runtime.store, limits))
    /\ last' = [NoCall EXCEPT !.op = "sync_limits"]
    /\ UNCHANGED <<now, daily_state, cooldown_until, decisions, execVars>>

\* market_states = market_service.refresh(); without market states the loop
\* sleeps and continues with the next cycle.
Refresh ==
    /\ runtime.pc = "refresh"
    /\ \E market \in LoopMarkets :
         runtime' = [runtime EXCEPT !.market_states = market,
                                    !.pc = IF market = EmptyMap THEN "load" ELSE "snapshot"]
    /\ last' = [NoCall EXCEPT !.op = "refresh"]
    /\ UNCHANGED <<now, riskVars, execVars, hist>>

\* reports = execution_engine.on_market_snapshot(market_states), the PnL
\* callback being handle_realized_pnl.
LoopSnapshot ==
    /\ runtime.pc = "snapshot"
    /\ LET e == on_market_snapshot(EngineState, runtime.market_states, PaperReply, now)
       IN /\ Becomes(e)
          /\ reports' = e.ret
          /\ runtime' = [handle_realized_pnl(runtime, e.pnl_calls) EXCEPT !.pc = "entries"]
          /\ last' = [NoCall EXCEPT !.op = "on_market_snapshot", !.pnl_calls = e.pnl_calls]
    /\ decisions' = <<>>
    /\ hist' = [hist EXCEPT !.snapshot = TRUE]
    /\ UNCHANGED <<now, limits>>

\* The rest of the cycle: with bot_running, the signals of the strategies go
\* to assess_signals and every approved decision to handle_risk_decision;
\* then the loop sleeps.
LoopEntries ==
    /\ runtime.pc = "entries"
    /\ runtime' = [runtime EXCEPT !.pc = "load"]
    /\ IF entries_enabled(runtime.state)
       THEN \E signals \in LoopSignalLists :
              LET ds == assess_signals(signals, positions, runtime.market_states, now,
                                       daily_state, cooldown_until, limits)
                  r == roll_session(daily_state, cooldown_until, now)
                  e0 == [EngineState EXCEPT !.daily_state = r.daily_state,
                                            !.cooldown_until = r.cooldown_until]
                  e == handle_decisions(e0, ds, runtime.market_states, PaperReply, now)
              IN /\ Cardinality(DOMAIN e.intents) <= MaxIntents
                 /\ Becomes(e)
                 /\ decisions' = ds
                 /\ hist' = [hist EXCEPT
                               !.assessed = Len(signals),
                               !.handled = Cardinality({i \in 1..Len(ds) : ds[i].approved})]
                 /\ last' = [NoCall EXCEPT !.op = "entries", !.signals = signals]
       ELSE /\ decisions' = <<>>
            /\ last' = [NoCall EXCEPT !.op = "entries"]
            /\ UNCHANGED <<daily_state, cooldown_until, positions, intents, entry_intents,
                           active_orders, submitted, hist>>
    /\ reports' = <<>>
    /\ UNCHANGED <<now, limits>>

NextLoop == Command \/ LoadAndSync \/ Refresh \/ LoopSnapshot \/ LoopEntries

SpecLoop == InitLoop /\ [][NextLoop]_vars

\* C34: whatever the operator changes while a cycle runs, the RiskLimits
\* stay as _sync_limits left them at the start of the cycle, and every
\* decision of the cycle is computed from those limits.
C34_LimitsFixedWithinCycle ==
    runtime # NoRuntime =>
       /\ limits = hist.synced
       /\ last.op = "entries" =>
             \A i \in 1..Len(decisions) :
                decisions[i].approved =>
                   /\ decisions[i].risk_amount = risk_amount(hist.synced, None, None)
                   /\ decisions[i].notional =
                         Some(Min((decisions[i].risk_amount \div 5) * 100,
                                  max_notional(hist.synced, decisions[i].symbol)))

\* A cycle that approved two entries after the operator had changed the risk
\* percentage, the equity and the position limit under it.
C34_Witness ==
    /\ runtime # NoRuntime
    /\ last.op = "entries"
    /\ Len(decisions) = 2 /\ decisions[1].approved /\ decisions[2].approved
    /\ runtime.store.per_trade_risk_pct # limits.per_trade_risk_pct
    /\ runtime.store.virtual_equity_usdt # limits.virtual_equity_usdt
    /\ runtime.store.max_concurrent_positions # limits.max_concurrent_positions

\* C35 (as claimed): a cycle that ends with bot_running false has assessed no
\* signal, handled no decision, and has run on_market_snapshot.
C35_StoppedCycleStillSnapshots ==
    [][(runtime # NoRuntime /\ runtime.pc # "load" /\ runtime'.pc = "load"
        /\ ~runtime.state.bot_running)
         => /\ decisions' = <<>> /\ intents' = intents /\ submitted' = submitted
            /\ hist'.assessed = 0 /\ hist'.handled = 0
            /\ hist'.snapshot]_vars

\* C35 (amended): in a cycle whose market refresh returned market states and
\* that finds bot_running false, no signal is assessed and no decision is
\* passed to handle_risk_decision, and on_market_snapshot has run before.
C35_StoppedCycleWithMarket ==
    [][(runtime # NoRuntime /\ runtime.pc = "entries" /\ runtime'.pc = "load"
        /\ ~runtime.state.bot_running)
         => /\ decisions' = <<>> /\ intents' = intents /\ submitted' = submitted
            /\ positions' = positions /\ entry_intents' = entry_intents
            /\ hist'.assessed = 0 /\ hist'.handled = 0
            /\ hist'.snapshot]_vars

\* A stopped cycle whose on_market_snapshot closed the position an earlier
\* cycle had opened.
C35_Witness ==
    /\ runtime # NoRuntime
    /\ last.op = "entries"
    /\ ~runtime.state.bot_running
    /\ hist.snapshot /\ hist.assessed = 0
    /\ DOMAIN intents # {} /\ positions = EmptyMap
    /\ runtime.store.daily_pnl_usdt < 0

--------------------------------------------------------------------------
(* runtime_state.json between the loop and the Telegram thread               *)

MaxPnlCalls == 2

\* `with runtime_lock:` / `with self._lock:` may enter when the lock is free;
\* a variant that enters whatever the lock says comes first.
can_acquire_any(lock) == TRUE

can_acquire(lock) == lock = "free"

\* Realized PnL of a close: a loss and a gain.
StorePnls == {0 - Usd(100), Usd(50)}

\* What the store's specification remembers: the sum of the PnL amounts whose
\* handle_realized_pnl has returned, the changes of the last command whose
\* handler has returned, how many PnL callbacks were made, and whether a
\* thread has waited for the lock while the other held it.
NoStoreHist == [pnl_sum |-> 0, commanded |-> EmptyMap, pnl_calls |-> 0, waited |-> FALSE]

InitStore ==
    /\ RiskConstructed(EngineLimits(2))
    /\ ExecConstructed(EmptyMap)
    /\ last = NoCall
    /\ hist = NoStoreHist
    /\ runtime = RuntimeStarted(EngineLimits(2))

StoreFrame == UNCHANGED <<now, limits, decisions, execVars>>

\* Top of the loop, runtime_store.load_state() outside the lock: the file as
\* it is; while save_state of the Telegram thread is rewriting the file, the
\* old or the new content, or text json.loads rejects: the exception ends
\* the loop.
StoreLoad ==
    /\ runtime.pc = "load"
    /\ \/ runtime' = [runtime EXCEPT !.state = runtime.store]
       \/ /\ runtime.telegram.pc = "saving"
          /\ \/ runtime' = [runtime EXCEPT
                              !.state = update_state(runtime.telegram.loaded[1],
                                                     runtime.telegram.changes)]
             \/ runtime' = [runtime EXCEPT !.pc = "stopped"]
    /\ last' = [NoCall EXCEPT !.op = "load_state"]
    /\ UNCHANGED <<daily_state, cooldown_until, hist>>
    /\ StoreFrame

\* handle_realized_pnl(pnl, when), called by the engine on a close:
\* risk_engine.record_trade_pnl(pnl, when), then the loop waits for the lock.
PnlCallback ==
    /\ runtime.pc = "load"
    /\ hist.pnl_calls < MaxPnlCalls
    /\ \E pnl \in StorePnls :
         LET r == record_trade_pnl(pnl, now, daily_state, cooldown_until, limits)
         IN /\ daily_state' = r.daily_state
            /\ cooldown_until' = r.cooldown_until
            /\ runtime' = [runtime EXCEPT !.pc = "pnl_wait", !.pending = <<pnl>>]
            /\ last' = [NoCall EXCEPT !.op = "handle_realized_pnl", !.pnl = pnl]
    /\ hist' = [hist EXCEPT !.pnl_calls = @ + 1,
                            !.waited = @ \/ runtime.telegram.pc \in {"locked", "saving"}]
    /\ StoreFrame

\* `with runtime_lock:` entered; runtime_state.daily_pnl_usdt += pnl and
\* load_state of update_state.
PnlLocked ==
    /\ runtime.pc = "pnl_wait"
    /\ can_acquire(runtime.lock)
    /\ runtime' = [runtime EXCEPT
                     !.lock = "main", !.pc = "pnl_loaded",
                     !.state.daily_pnl_usdt = @ + runtime.pending[1],
                     !.loaded = Some(runtime.store)]
    /\ UNCHANGED <<daily_state, cooldown_until, hist, last>>
    /\ StoreFrame

\* setattr and save_state of update_state, runtime_state rebound to what was
\* saved, and the lock released.
PnlSaved ==
    /\ runtime.pc = "pnl_loaded"
    /\ LET saved == update_state(runtime.loaded[1],
                                 [daily_pnl_usdt |-> runtime.state.daily_pnl_usdt])
       IN runtime' = [runtime EXCEPT !.store = saved, !.state = saved, !.lock = "free",
                                     !.pc = "load", !.pending = <<>>, !.loaded = None]
    /\ hist' = [hist EXCEPT !.pnl_sum = @ + runtime.pending[1]]
    /\ UNCHANGED <<daily_state, cooldown_until, last>>
    /\ StoreFrame

\* A command arrives: its handler calls _update_state(**changes) and waits
\* for the lock.
CommandArrives ==
    /\ runtime.telegram.pc = "idle"
    /\ \E changes \in Commands :
         runtime' = [runtime EXCEPT !.telegram = [pc |-> "wait", changes |-> changes,
                                                  loaded |-> None]]
    /\ hist' = [hist EXCEPT !.waited = @ \/ runtime.pc = "pnl_loaded"]
    /\ UNCHANGED <<daily_state, cooldown_until, last>>
    /\ StoreFrame

\* `with self._lock:` entered and load_state of update_state.
CommandLocked ==
    /\ runtime.telegram.pc = "wait"
    /\ can_acquire(runtime.lock)
    /\ runtime' = [runtime EXCEPT !.lock = "telegram", !.telegram.pc = "locked",
                                  !.telegram.loaded = Some(runtime.store)]
    /\ UNCHANGED <<daily_state, cooldown_until, hist, last>>
    /\ StoreFrame

\* save_state starts to rewrite the file.
CommandSaving ==
    /\ runtime.telegram.pc = "locked"
    /\ runtime' = [runtime EXCEPT !.telegram.pc = "saving"]
    /\ UNCHANGED <<daily_state, cooldown_until, hist, last>>
    /\ StoreFrame

\* The file is written and the lock released; the handler replies.
CommandSaved ==
    /\ runtime.telegram.pc = "saving"
    /\ runtime' = [runtime EXCEPT
                     !.store = update_state(runtime.telegram.loaded[1],
                                            runtime.telegram.changes),
                     !.lock = "free",
                     !.telegram = [pc |-> "idle", changes |-> EmptyMap, loaded |-> None]]
    /\ hist' = [hist EXCEPT !.commanded = runtime.telegram.changes]
    /\ last' = [NoCall EXCEPT !.op = "telegram_update_state"]
    /\ UNCHANGED <<daily_state, cooldown_until>>
    /\ StoreFrame

NextStore ==
    \/ StoreLoad \/ PnlCallback \/ PnlLocked \/ PnlSaved
    \/ CommandArrives \/ CommandLocked \/ CommandSaving \/ CommandSaved

SpecStore == InitStore /\ [][NextStore]_vars

\* C40: once the operator's command and the loop's handle_realized_pnl have
\* both returned, runtime_state.json holds the operator's value and the daily
\* PnL with every realized amount added, however the two were interleaved.
C40_NoLostUpdate ==
    (runtime # NoRuntime /\ runtime.telegram.pc = "idle"
     /\ runtime.pc \in {"load", "stopped"}) =>
       /\ runtime.store.daily_pnl_usdt = hist.pnl_sum
       /\ \A k \in DOMAIN hist.commanded : runtime.store[k] = hist.commanded[k]

\* Both have returned after one had to wait for the other's lock: the loss
\* and the operator's new equity are both in the file.
C40_Witness ==
    /\ runtime # NoRuntime
    /\ runtime.telegram.pc = "idle" /\ runtime.pc = "load"
    /\ hist.waited
    /\ hist.pnl_sum = 0 - Usd(100)
    /\ runtime.store.daily_pnl_usdt = 0 - Usd(100)
    /\ "virtual_equity_usdt" \in DOMAIN hist.commanded
    /\ runtime.store.virtual_equity_usdt = Usd(20000)

--------------------------------------------------------------------------
(* Position slots across cycles: two symbols, one slot                       *)

\* A limit-on-retest entry for BTCUSDT and a market entry for ETHUSDT.
SlotSignals ==
    {[Signal("BTCUSDT", LONG, STRATEGY_B, 100, Some(95)) EXCEPT
        !.metadata.entry_execution = Some("limit_on_retest")],
     Signal("ETHUSDT", LONG, STRATEGY_A, 100, Some(95))}

\* What the strategies emit in one cycle: nothing, one signal, or both.
SlotSignalLists ==
    {l \in SignalLists(SlotSignals) :
        \A i, j \in 1..Len(l) : i # j => l[i].symbol # l[j].symbol}

\* Both symbols at the given price: above the long entry price (105, no
\* retest) or at it when the signals are assessed, at it or at the long stop
\* (95) in a later snapshot.
SlotMarket(p) == [s \in {"BTCUSDT", "ETHUSDT"} |-> Market(p, 2, 4000000)]
SlotEntryMarkets == {SlotMarket(100), SlotMarket(105)}
SlotSnapshots == {SlotMarket(95), SlotMarket(100)}

\* The gateway leaves the order resting or fills it at once.
SlotReplies == {ORDER_NEW, FILLED}

InitSlots ==
    /\ RiskConstructed(EngineLimits(1))
    /\ ExecConstructed(EmptyMap)
    /\ last = NoCall
    /\ hist = NoHist
    /\ runtime = NoRuntime

\* The entry half of a cycle: assess_signals on the engine's positions, every
\* approved decision to handle_risk_decision.
SlotsPipeline ==
    \E signals \in SlotSignalLists, market \in SlotEntryMarkets, reply \in SlotReplies :
      LET ds == assess_signals(signals, positions, market, now, daily_state,
                               cooldown_until, limits)
          r == roll_session(daily_state, cooldown_until, now)
          e0 == [EngineState EXCEPT !.daily_state = r.daily_state,
                                    !.cooldown_until = r.cooldown_until]
          e == handle_decisions(e0, ds, market, reply, now)
      IN /\ Cardinality(DOMAIN e.intents) <= MaxIntents
         /\ e.submitted <= MaxOrders
         /\ Becomes(e)
         /\ decisions' = ds
         /\ reports' = <<>>
         /\ last' = [NoCall EXCEPT !.op = "run_signal_pipeline"]
         /\ UNCHANGED <<now, limits, hist, runtime>>

\* ExecutionEngine.on_market_snapshot(market_state, now)
SlotsSnapshot ==
    \E market \in SlotSnapshots, reply \in SlotReplies :
      LET e == on_market_snapshot(EngineState, market, reply, now)
      IN /\ e.submitted <= MaxOrders
         /\ Becomes(e)
         /\ reports' = e.ret
         /\ decisions' = <<>>
         /\ last' = [NoCall EXCEPT !.op = "on_market_snapshot"]
         /\ UNCHANGED <<now, limits, hist, runtime>>

NextSlots == SlotsPipeline \/ SlotsSnapshot \/ HandleOrderUpdate

SpecSlots == InitSlots /\ [][NextSlots]_vars

\* C36 (as claimed): whatever the cycles do, the engine never holds more
\* open positions than max_concurrent_positions.
C36_PositionsWithinLimit ==
    Cardinality({s \in DOMAIN positions : positions[s].size # 0})
       <= limits.max_concurrent_positions

--------------------------------------------------------------------------
(* Order updates that arrive late or for orders the engine does not know     *)

\* An order the engine has not submitted, for an intent it has never had.
UnknownOrder ==
    [order_id |-> 99, intent_id |-> 99, symbol |-> "BTCUSDT", order_type |-> "limit",
     quantity |-> Qty(20), status |-> FILLED, filled_qty |-> Qty(20), avg_fill_price |-> 100]

\* ExecutionEngine.handle_order_update(order, now) for whatever the exchange
\* sends: a report on any order the engine has recorded, finished or not
\* (reports can be repeated), or on an order of an unknown intent.
LateUpdates(order) ==
    {u \in AllOrderUpdates(order) : u.status \in {ORDER_NEW, FILLED, REJECTED}}

\* A long limit-on-retest decision handed over with the price at its entry
\* price: the limit order goes out at once and rests or fills.
LateDecision ==
    \E decision \in {d \in RetestDecisions : d.side = LONG}, reply \in {ORDER_NEW, FILLED} :
      LET e == handle_risk_decision(EngineState, decision, Some(Market(100, 2, 4000000)),
                                    reply, now)
      IN /\ Cardinality(DOMAIN e.intents) <= MaxIntents
         /\ e.submitted <= MaxOrders
         /\ Becomes(e)
         /\ reports' = <<>>
         /\ decisions' = <<>>
         /\ last' = [NoCall EXCEPT !.op = "handle_risk_decision"]
         /\ UNCHANGED <<now, limits, hist, runtime>>

\* ExecutionEngine.on_market_snapshot(market_state, now) with the symbol at
\* its long stop or just above the entry price (no exit, no retest: what is
\* left is the TTL of the entry intents).
LateSnapshot ==
    \E p \in {95, 101} :
      LET e == on_market_snapshot(EngineState, [s \in {"BTCUSDT"} |-> Market(p, 2, 4000000)],
                                  ORDER_NEW, now)
      IN /\ e.submitted <= MaxOrders
         /\ Becomes(e)
         /\ reports' = e.ret
         /\ decisions' = <<>>
         /\ last' = [NoCall EXCEPT !.op = "on_market_snapshot"]
         /\ UNCHANGED <<now, limits, hist, runtime>>

HandleLateOrderUpdate ==
    \E order \in UNION {LateUpdates(active_orders[id]) : id \in DOMAIN active_orders}
                   \cup {UnknownOrder} :
      LET e == handle_order_update(EngineState, order, now)
      IN /\ Becomes(e)
         /\ reports' = e.ret
         /\ last' = [NoCall EXCEPT !.op = "handle_order_update", !.order = Some(order),
                                   !.repeat = order.intent_id \notin entry_intents]
         /\ decisions' = <<>>
         /\ UNCHANGED <<now, limits, hist, runtime>>

NextLate == Tick \/ LateDecision \/ LateSnapshot \/ HandleLateOrderUpdate

SpecLate == Init /\ [][NextLate]_vars

\* C37: handle_order_update for an order whose intent is not in the live
\* intent map returns no report and changes neither positions nor intents nor
\* the risk state; it only stores the order in active_orders.
C37_UnknownIntentUpdate ==
    [][(last'.op = "handle_order_update" /\ now' = now
        /\ last'.order[1].intent_id \notin entry_intents)
         => /\ reports' = <<>>
            /\ positions' = positions
            /\ intents' = intents /\ entry_intents' = entry_intents
            /\ daily_state' = daily_state /\ cooldown_until' = cooldown_until
            /\ submitted' = submitted
            /\ active_orders' = Put(active_orders, last'.order[1].order_id,
                                    last'.order[1])]_vars

\* A FILLED report repeated for an intent that has filled and left the live
\* map, its position held.
C37_Witness ==
    /\ last.op = "handle_order_update" /\ last.repeat
    /\ last.order[1].status = FILLED
    /\ last.order[1].intent_id \in DOMAIN intents
    /\ intents[last.order[1].intent_id].status = FILLED
    /\ last.order[1].symbol \in DOMAIN positions
    /\ reports = <<>>

--------------------------------------------------------------------------
(* The size of a position through its closes                                  *)

\* Market entries, long and short, with a one-bar time stop.
CloseSignals ==
    {[Signal("BTCUSDT", LONG, STRATEGY_A, 100, Some(95)) EXCEPT !.time_stop_bars = Some(1)],
     [Signal("BTCUSDT", SHORT, STRATEGY_C, 100, Some(105)) EXCEPT !.time_stop_bars = Some(1)]}

\* Cycle times: the entry and the end of the one-bar time stop.
CloseTimes == {0, 300}

\* Per symbol, for the PositionState now (or last) in the map: the size it
\* was opened with and the quantities of its exit reports, summed.
NoCloseHist == [opened |-> [s \in ExitSymbols |-> 0], exited |-> [s \in ExitSymbols |-> 0]]

InitClose ==
    /\ RiskConstructed(EngineLimits(2))
    /\ ExecConstructed(EmptyMap)
    /\ last = NoCall
    /\ hist = NoCloseHist
    /\ runtime = NoRuntime

\* run_signal_pipeline with one signal and the paper gateway.
ClosePipeline ==
    \E signal \in CloseSignals :
      LET ds == assess_signals(<<signal>>, positions, ExitPipelineMarket, now, daily_state,
                               cooldown_until, limits)
          r == roll_session(daily_state, cooldown_until, now)
          e0 == [EngineState EXCEPT !.daily_state = r.daily_state,
                                    !.cooldown_until = r.cooldown_until]
          e == handle_decisions(e0, ds, ExitPipelineMarket, PaperReply, now)
          fresh == {s \in DOMAIN e.positions : e.submitted > submitted}
      IN /\ Cardinality(DOMAIN e.intents) <= MaxExitIntents
         /\ Becomes(e)
         /\ decisions' = ds
         /\ reports' = <<>>
         /\ last' = [NoCall EXCEPT !.op = "run_signal_pipeline"]
         /\ hist' = [opened |-> [s \in ExitSymbols |->
                                   IF s \in fresh THEN e.positions[s].size ELSE hist.opened[s]],
                     exited |-> [s \in ExitSymbols |->
                                   IF s \in fresh THEN 0 ELSE hist.exited[s]]]
         /\ UNCHANGED <<now, limits, runtime>>

\* ExecutionEngine.on_market_snapshot(market_state, now); last keeps the
\* position map the exit loop went over.
CloseSnapshot ==
    \E market \in ExitSnapshots :
      LET e == on_market_snapshot(EngineState, market, PaperReply, now)
          qty(s) == LET about(r) == IsExit(r) /\ r.symbol = s
                        x == SelectSeq(e.ret, about)
                    IN SumSeq([k \in 1..Len(x) |-> x[k].quantity])
      IN /\ Becomes(e)
         /\ reports' = e.ret
         /\ decisions' = <<>>
         /\ last' = [NoCall EXCEPT !.op = "on_market_snapshot", !.market = market,
                                   !.open_positions = positions]
         /\ hist' = [hist EXCEPT !.exited = [s \in ExitSymbols |-> hist.exited[s] + qty(s)]]
         /\ UNCHANGED <<now, limits, runtime>>

\* The main loop sleeps until a later cycle.
TickClose ==
    /\ \E t \in CloseTimes : t > now /\ now' = t
    /\ UNCHANGED <<riskVars, execVars, last, hist, runtime>>

NextClose == TickClose \/ ClosePipeline \/ CloseSnapshot

SpecClose == InitClose /\ [][NextClose]_vars

\* C38: through the take-profit, stop-loss and time-stop closes of one
\* on_market_snapshot the size of a position never grows and never goes below
\* zero, the quantity of every exit report is at most the size that remained
\* before it, and when the position has left the map the quantities of all its
\* exit reports sum to the size it was opened with.
C38_SizeThroughCloses ==
    last.op = "on_market_snapshot" =>
       \A s \in DOMAIN last.open_positions :
          LET x == ExitsOf(s)
              before == last.open_positions[s].size
          IN /\ \A i \in 1..Len(x) :
                   /\ x[i].quantity >= 0
                   /\ x[i].quantity <= before - ClosedBefore(x, i)
             /\ s \in DOMAIN positions =>
                   /\ positions[s].size = before - ClosedBefore(x, Len(x) + 1)
                   /\ positions[s].size <= before
                   /\ positions[s].size > 0
                   /\ hist.exited[s] + positions[s].size = hist.opened[s]
             /\ s \notin DOMAIN positions =>
                   /\ ClosedBefore(x, Len(x) + 1) = before
                   /\ hist.exited[s] = hist.opened[s]

\* A position opened with 20 units, halved by TP1 in one cycle and closed
\* by its time stop in a later one.
C38_Witness ==
    /\ last.op = "on_market_snapshot"
    /\ "BTCUSDT" \in DOMAIN last.open_positions
    /\ "BTCUSDT" \notin DOMAIN positions
    /\ last.open_positions["BTCUSDT"].size = Qty(10)
    /\ hist.opened["BTCUSDT"] = Qty(20)
    /\ \E i \in 1..Len(reports) : reports[i].event = "time_stop"
                                   /\ reports[i].quantity = Qty(10)

--------------------------------------------------------------------------
(* Where the take-profit rungs fire                                           *)

\* A TakeProfitLevel (app/strategies/base.py); size_pct in whole percent.
TakeProfitLevel(price, size_pct, label) ==
    [price |-> price, size_pct |-> size_pct, label |-> label]

\* Long and short market entries at 100 with 1R = 5 whose strategy sets its
\* targets nearer than 1R and 2R, and a long one without tp_levels.
RungSignals ==
    {Signal("BTCUSDT", LONG, STRATEGY_A, 100, Some(95)),
     [Signal("BTCUSDT", LONG, STRATEGY_A, 100, Some(95)) EXCEPT
        !.tp_levels = <<TakeProfitLevel(102, 50, "tp1"), TakeProfitLevel(103, 50, "tp2")>>],
     [Signal("BTCUSDT", SHORT, STRATEGY_C, 100, Some(105)) EXCEPT
        !.tp_levels = <<TakeProfitLevel(98, 50, "tp1"), TakeProfitLevel(97, 50, "tp2")>>]}

\* Positions the exchange reports without a stop: the stop is the entry price.
RungSnapshots ==
    {RawSnapshot("BTCUSDT", "long", Num(Qty(2)), 100, None),
     RawSnapshot("BTCUSDT", "short", Num(Qty(2)), 100, None)}

\* Snapshot prices around the entry of 100: within 0.5% and 1% of the price,
\* at the strategies' levels, at 1R and 2R.
RungPrices == {95, 98, 99, 101, 102, 105, 110}

InitRungs ==
    /\ RiskConstructed(EngineLimits(2))
    /\ ExecConstructed(EmptyMap)
    /\ last = NoCall
    /\ hist = NoHist
    /\ runtime = NoRuntime

\* run_signal_pipeline with one signal and the paper gateway.
RungPipeline ==
    \E signal \in RungSignals :
      LET ds == assess_signals(<<signal>>, positions, ExitPipelineMarket, now, daily_state,
                               cooldown_until, limits)
          r == roll_session(daily_state, cooldown_until, now)
          e0 == [EngineState EXCEPT !.daily_state = r.daily_state,
                                    !.cooldown_until = r.cooldown_until]
          e == handle_decisions(e0, ds, ExitPipelineMarket, PaperReply, now)
      IN /\ Cardinality(DOMAIN e.intents) <= MaxIntents
         /\ Becomes(e)
         /\ decisions' = ds
         /\ reports' = <<>>
         /\ last' = [NoCall EXCEPT !.op = "run_signal_pipeline"]
         /\ UNCHANGED <<now, limits, hist, runtime>>

\* hydrate_execution_engine(engine, client) at start-up, before the first
\* cycle, with one position listed.
RungHydrate ==
    \E snapshot \in RungSnapshots :
      /\ submitted = 0 /\ positions = EmptyMap /\ last = NoCall
      /\ positions' = hydrate_execution_engine(positions, <<snapshot>>).positions
      /\ last' = [NoCall EXCEPT !.op = "hydrate_execution_engine", !.snapshots = <<snapshot>>]
      /\ reports' = <<>>
      /\ UNCHANGED <<now, riskVars, intents, entry_intents, active_orders, submitted,
                     hist, runtime>>

\* ExecutionEngine.on_market_snapshot(market_state, now); last keeps the
\* position map the exit loop went over.
RungSnapshot ==
    \E p \in RungPrices :
      LET market == [s \in {"BTCUSDT"} |-> Market(p, 2, 4000000)]
          e == on_market_snapshot(EngineState, market, PaperReply, now)
      IN /\ Becomes(e)
         /\ reports' = e.ret
         /\ decisions' = <<>>
         /\ last' = [NoCall EXCEPT !.op = "on_market_snapshot", !.market = market,
                                   !.open_positions = positions]
         /\ UNCHANGED <<now, limits, hist, runtime>>

NextRungs == RungPipeline \/ RungHydrate \/ RungSnapshot

SpecRungs == InitRungs /\ [][NextRungs]_vars

\* 1R of a position at the given price, in thousandths of a price unit: the
\* distance between entry and initial stop, or 0.5% of the price when there
\* is none.
OneR(pos, price) ==
    IF pos.entry_price # pos.initial_sl_price
    THEN Abs(pos.entry_price - pos.initial_sl_price) * 1000
    ELSE price * 5

\* The price has reached entry + n R (long) or entry - n R (short).
Reached(pos, price, n) ==
    IF pos.side = LONG THEN price * 1000 >= pos.entry_price * 1000 + n * OneR(pos, price)
    ELSE price * 1000 <= pos.entry_price * 1000 - n * OneR(pos, price)

RungFired(s, rung) ==
    \E i \in 1..Len(reports) :
       /\ reports[i].symbol = s /\ reports[i].event = "take_profit"
       /\ reports[i].reason = Some(rung)

==========================================================================
